---- MODULE Spec2Model ----
(***************************************************************************)
(* Model of the review-job service: the sliding-window limiter of          *)
(* rate_limiter.py (RateLimiter, rate_limit), the routes, the job store    *)
(* and the job processor of main.py (analyze_pr, get_status, get_results,  *)
(* save_task, get_task, process_pr_analysis) and the analyzer fan-out of   *)
(* agents/orchestrator.py (AgentOrchestrator.analyze_pr, _run_agent).      *)
(*                                                                         *)
(* Time.  `now` is the wall clock in ticks; TicksPerSecond ticks make one  *)
(* second.  time.time() is `now` (a float of seconds, kept in ticks),      *)
(* int(time.time()) is Seconds(now).                                       *)
(***************************************************************************)
EXTENDS Integers, Sequences, FiniteSets, TLC

\* ---------------------------------------------------------------- bounds
\* direct limiter calls: clock resolution, last tick, largest window (seconds),
\* largest max_requests, number of calls
TicksPerSecond == 2
MaxClock == 3
MaxWindow == 2
MaxRequests == 2
MaxCalls == 3

\* the submit route: number of submissions, last second, length of an idle
\* stretch (seconds), number of shared-store commands that may raise
MaxSubmits == 6
MaxRouteClock == 65
RouteJumpSeconds == 30
MaxFaults == 1

\* the job processor: number of jobs followed through process_pr_analysis
MaxJobs == 2
\* the read routes: number of jobs created while status and results are queried
MaxQueryJobs == 1
\* the store layer alone: number of save_task calls
MaxSaves == 2
\* the orchestrator: length of the longest issue list an analyzer returns
MaxFindings == 1
MaxFiles == 2

\* @rate_limit(max_requests=10, window_seconds=60) on analyze_pr
RouteMaxRequests == 10
RouteWindowSeconds == 60
\* save_task: redis_client.set(..., ex=86400)
TaskTTLSeconds == 86400

Clients == {"hostA", "hostB"}
\* rate_limit.wrapper, line 86: limit_key = f"rate_limit:{request.client.host}"
LimitKey(host) == "rate_limit:" \o host
DirectKeys == {"user1", "user2"}
Keys == DirectKeys \cup {LimitKey(h) : h \in Clients}
Callers == {"p1", "p2"}
Windows == 1..MaxWindow
Limits == 1..MaxRequests

NoTTL == -1

VARIABLES
    redis_client,       \* RateLimiter.redis_client / main.redis_client: configured or None
    max_requests,       \* the max_requests every call of the run passes
    window_seconds,     \* the window_seconds every call of the run passes
    now,                \* wall clock, in ticks
    in_memory_store,    \* RateLimiter.in_memory_store: key -> list of timestamps (ticks)
    redis_zset,         \* shared store: key -> sorted set; member str(s) has score s (seconds)
    redis_ttl,          \* shared store: key -> tick at which the key expires, or NoTTL
    pc,                 \* per caller: "idle", or "pipe" between line 29 and line 37
    frame,              \* per caller: the locals of its check (key, current, the list built) and the method called
    result,             \* what the last finished limiter call returned
    history,            \* key -> the time read by every finished check of the key, in order of finishing
    calls,              \* number of limiter calls started (of submissions answered, on the route)
    tasks_store,        \* main.tasks_store: task id -> job record (in-process map)
    redis_tasks,        \* shared store: task id -> [value, expire_at] under "task:<id>"
    background_tasks,   \* the process_pr_analysis calls dispatched, by task id, in order
    response,           \* the response to the last submission
    submitted,          \* client -> the times its submissions reached the limiter
    faults,             \* number of shared-store commands that raised so far
    proc,               \* task id -> where its process_pr_analysis call stands, and its locals
    written,            \* task id -> the statuses saved for it (by process_pr_analysis), in order
    query,              \* the answer to the last read (get_task, get_status, get_results)
    orch,               \* one AgentOrchestrator.analyze_pr call: its locals and its futures
    review              \* the last single-agent analyze_pr call: its input and how it ended

limiterVars == <<redis_client, max_requests, window_seconds, now, in_memory_store, redis_zset,
                 redis_ttl, pc, frame, result, history, calls>>

jobVars == <<tasks_store, redis_tasks, background_tasks>>

procVars == <<proc, written, query>>

routeVars == <<jobVars, response, submitted, faults, procVars, orch, review>>

vars == <<limiterVars, routeVars>>

\* ------------------------------------------------------------- helpers
Max(a, b) == IF a >= b THEN a ELSE b

\* int(time.time())
Seconds(t) == t \div TicksPerSecond

\* number of elements of the sequence s that satisfy Test
CountIf(s, Test(_)) == Cardinality({i \in 1..Len(s) : Test(s[i])})

Front(s) == SubSeq(s, 1, Len(s) - 1)

NoFrame == [key |-> "user1", op |-> "none", current |-> 0, kept |-> <<>>]
NoResponse == [status |-> 0, client |-> "hostA", allowed |-> TRUE, task_id |-> 0,
               task_status |-> "None", remaining_header |-> 0]
NoResult == [op |-> "none", key |-> "user1", allowed |-> TRUE,
             count |-> 0, remaining |-> 0, raised |-> FALSE]

\* ------------------------------------------------- RateLimiter, in memory
\* _check_memory, lines 46-47: window_start = current - window_seconds, in ticks
MemoryWindowStart(t, w) == t - w * TicksPerSecond

\* faulty variant of MemoryKept: nothing is ever discarded
MemoryKeptAll(list, t, w) == list

\* _check_memory, lines 53-55: the timestamps kept, t > window_start
MemoryKept(list, t, w) == SelectSeq(list, LAMBDA x : x > MemoryWindowStart(t, w))

\* faulty variant of CheckMemoryStore: a call over the limit is not recorded
CheckMemoryStoreDropDenied(store, key, t, w) ==
    [store EXCEPT ![key] = IF Len(MemoryKept(@, t, w)) >= max_requests
                           THEN MemoryKept(@, t, w)
                           ELSE Append(MemoryKept(@, t, w), t)]

\* faulty variant of CheckMemoryStore: one list shared by every key
CheckMemoryStoreShared(store, key, t, w) ==
    [k \in DOMAIN store |-> Append(MemoryKept(store[k], t, w), t)]

\* _check_memory, lines 49-56: the store after the check of `key` at time t
CheckMemoryStore(store, key, t, w) ==
    [store EXCEPT ![key] = Append(MemoryKept(@, t, w), t)]

\* _check_memory, line 58: request_count
CheckMemoryCount(store, key, t, w) == Len(CheckMemoryStore(store, key, t, w)[key])

\* faulty variant of Allowed: the boundary is exclusive
AllowedStrict(count, limit) == count < limit

\* lines 40 and 59: request_count <= max_requests
Allowed(count, limit) == count <= limit

\* ---------------------------------------------- RateLimiter, shared store
\* the sorted set a command finds under `key` at tick t: an expired key is gone
RedisLive(zset, ttl, key, t) ==
    IF ttl[key] # NoTTL /\ t >= ttl[key] THEN {} ELSE zset[key]

\* line 33: zremrangebyscore(key, 0, window_start) removes the scores in [0, window_start]
ZRemRangeByScore(set, lo, hi) == {s \in set : ~(lo <= s /\ s <= hi)}

\* line 34: zadd(key, {str(current): current}); the member is the decimal text of
\* the second, so a second that is already a member adds no member
ZAdd(set, current) == set \cup {current}

\* lines 33-34 of the MULTI/EXEC pipeline: the sorted set of `key` after it ran at tick t
RedisPipelineSet(zset, ttl, key, current, w, t) ==
    ZAdd(ZRemRangeByScore(RedisLive(zset, ttl, key, t), 0, current - w), current)

\* line 35 and 39: results[2], the zcard of the key
RedisPipelineCount(zset, ttl, key, current, w, t) ==
    Cardinality(RedisPipelineSet(zset, ttl, key, current, w, t))

\* line 36: expire(key, window_seconds), counted from the tick the pipeline ran
RedisPipelineTTL(t, w) == t + w * TicksPerSecond

\* faulty variant of FailOpen: a store failure denies the request
FailClosed == [allowed |-> FALSE, count |-> 0]

\* lines 41-43: what _check_redis returns when the pipeline raised
FailOpen == [allowed |-> TRUE, count |-> 0]

\* faulty variant of Remaining: the difference is not clamped at 0
RemainingSigned(limit, current_count) == limit - current_count

\* get_remaining_requests, line 63
Remaining(limit, current_count) == Max(0, limit - current_count)

\* the record of a finished call
Finished(op, key, n, allowed, count, raised) ==
    [op |-> op, key |-> key, allowed |-> allowed, count |-> count,
     remaining |-> IF op = "remaining" THEN Remaining(n, count) ELSE 0,
     raised |-> raised]


Ops == {"check", "remaining"}

\* ------------------------------------------------------------------ Init
\* ------------------------------------------------ job and run records
JobIds == 1..MaxJobs

\* process_pr_analysis not called yet: no locals
NoProc == [pc |-> "idle", results |-> "None", error |-> "None", fetches |-> 0,
           analyses |-> 0]

NoQuery == [op |-> "none", task_id |-> 0, raised |-> FALSE, code |-> 0, status |-> "None",
            results |-> "None", error |-> "None"]

\* no AgentOrchestrator.analyze_pr call made yet
NoOrch == [phase |-> "idle", sink |-> FALSE, raising |-> {}, files |-> <<>>,
           outcome |-> <<>>,
           futures |-> <<>>,
           finished |-> <<>>, snapped |-> FALSE, early |-> {},
           collected |-> <<>>, results |-> <<>>, progress |-> <<>>]

NoReview == [agent |-> "none", pr_data |-> <<>>, outcome |-> <<>>]

ProcessorIdle ==
    /\ proc = [id \in JobIds |-> NoProc]
    /\ written = [id \in JobIds |-> <<>>]
    /\ query = NoQuery

Init ==
    /\ redis_client \in BOOLEAN
    /\ max_requests \in Limits
    /\ window_seconds \in Windows
    /\ now = 0
    /\ in_memory_store = [k \in Keys |-> <<>>]
    /\ redis_zset = [k \in Keys |-> {}]
    /\ redis_ttl = [k \in Keys |-> NoTTL]
    /\ pc = [c \in Callers |-> "idle"]
    /\ frame = [c \in Callers |-> NoFrame]
    /\ result = NoResult
    /\ history = [k \in Keys |-> <<>>]
    /\ calls = 0
    /\ tasks_store = <<>>
    /\ redis_tasks = <<>>
    /\ background_tasks = <<>>
    /\ response = NoResponse
    /\ submitted = [h \in Clients |-> <<>>]
    /\ faults = 0
    /\ ProcessorIdle
    /\ orch = NoOrch
    /\ review = NoReview

\* --------------------------------------------------------------- actions
\* the clock advances
Tick ==
    /\ now < MaxClock
    /\ now' = now + 1
    /\ UNCHANGED <<redis_client, max_requests, window_seconds, in_memory_store, redis_zset, redis_ttl,
                   pc, frame, result, history, calls, routeVars>>

\* check_rate_limit / get_remaining_requests without a shared store: _check_memory
CheckMemory(op, key) ==
    /\ ~redis_client
    /\ calls < MaxCalls
    /\ calls' = calls + 1
    /\ in_memory_store' = CheckMemoryStore(in_memory_store, key, now, window_seconds)
    /\ LET count == CheckMemoryCount(in_memory_store, key, now, window_seconds)
           r == Finished(op, key, max_requests, Allowed(count, max_requests), count, FALSE)
       IN /\ result' = r
          /\ history' = [history EXCEPT ![key] = Append(@, now)]
    /\ UNCHANGED <<redis_client, max_requests, window_seconds, now, redis_zset, redis_ttl, pc, frame,
                   routeVars>>

\* _check_redis, lines 29-30: the caller reads the clock
CheckRedisBegin(c, op, key) ==
    /\ redis_client
    /\ pc[c] = "idle"
    /\ calls < MaxCalls
    /\ calls' = calls + 1
    /\ pc' = [pc EXCEPT ![c] = "pipe"]
    /\ frame' = [frame EXCEPT ![c] =
                    [key |-> key, op |-> op, current |-> Seconds(now), kept |-> <<>>]]
    /\ UNCHANGED <<redis_client, max_requests, window_seconds, now, in_memory_store, redis_zset,
                   redis_ttl, result, history, routeVars>>

\* _check_redis, lines 32-40: the pipeline runs as one MULTI/EXEC transaction
CheckRedisExecute(c) ==
    /\ pc[c] = "pipe"
    /\ LET f == frame[c]
           set == RedisPipelineSet(redis_zset, redis_ttl, f.key, f.current, window_seconds, now)
           count == RedisPipelineCount(redis_zset, redis_ttl, f.key, f.current,
                                       window_seconds, now)
           r == Finished(f.op, f.key, max_requests, Allowed(count, max_requests),
                         count, FALSE)
       IN /\ redis_zset' = [redis_zset EXCEPT ![f.key] = set]
          /\ redis_ttl' = [redis_ttl EXCEPT ![f.key] = RedisPipelineTTL(now, window_seconds)]
          /\ result' = r
          /\ history' = [history EXCEPT ![f.key] = Append(@, f.current)]
    /\ pc' = [pc EXCEPT ![c] = "idle"]
    /\ frame' = [frame EXCEPT ![c] = NoFrame]
    /\ UNCHANGED <<redis_client, max_requests, window_seconds, now, in_memory_store, calls,
                   routeVars>>

\* _check_redis, lines 41-43: the pipeline raises; the transaction ran on the
\* server (the reply was lost) or did not run at all
CheckRedisRaise(c, applied) ==
    /\ pc[c] = "pipe"
    /\ LET f == frame[c]
           set == RedisPipelineSet(redis_zset, redis_ttl, f.key, f.current, window_seconds, now)
           r == Finished(f.op, f.key, max_requests, FailOpen.allowed, FailOpen.count,
                         TRUE)
       IN /\ redis_zset' = IF applied THEN [redis_zset EXCEPT ![f.key] = set] ELSE redis_zset
          /\ redis_ttl' = IF applied
                          THEN [redis_ttl EXCEPT ![f.key] = RedisPipelineTTL(now, window_seconds)]
                          ELSE redis_ttl
          /\ result' = r
          /\ history' = [history EXCEPT ![f.key] = Append(@, f.current)]
    /\ pc' = [pc EXCEPT ![c] = "idle"]
    /\ frame' = [frame EXCEPT ![c] = NoFrame]
    /\ UNCHANGED <<redis_client, max_requests, window_seconds, now, in_memory_store, calls,
                   routeVars>>

Next ==
    \/ Tick
    \/ \E op \in Ops, key \in DirectKeys : CheckMemory(op, key)
    \/ \E c \in Callers, op \in Ops, key \in DirectKeys : CheckRedisBegin(c, op, key)
    \/ \E c \in Callers : CheckRedisExecute(c)
    \/ \E c \in Callers, applied \in BOOLEAN : CheckRedisRaise(c, applied)

Spec == Init /\ [][Next]_vars

\* ------------------------------------------- _check_memory under threads
\* the steps of _check_memory, lines 45-59, when the callers are threads: the
\* interpreter may switch threads between any two of them
\* lines 46-47: the thread reads the clock
ThreadEnter(c, key) ==
    /\ ~redis_client
    /\ pc[c] = "idle"
    /\ calls < MaxCalls
    /\ calls' = calls + 1
    /\ pc' = [pc EXCEPT ![c] = "prune"]
    /\ frame' = [frame EXCEPT ![c] =
                    [key |-> key, op |-> "check", current |-> now, kept |-> <<>>]]
    /\ UNCHANGED <<redis_client, max_requests, window_seconds, now, in_memory_store, redis_zset,
                   redis_ttl, result, history, routeVars>>

\* lines 53-55, the right-hand side: the list of the timestamps kept is built
ThreadPrune(c) ==
    /\ pc[c] = "prune"
    /\ pc' = [pc EXCEPT ![c] = "store"]
    /\ frame' = [frame EXCEPT ![c].kept =
                    MemoryKept(in_memory_store[frame[c].key], frame[c].current,
                               window_seconds)]
    /\ UNCHANGED <<redis_client, max_requests, window_seconds, now, in_memory_store, redis_zset,
                   redis_ttl, result, history, calls, routeVars>>

\* lines 53-55, the assignment: the list built replaces the one of the key
ThreadStore(c) ==
    /\ pc[c] = "store"
    /\ pc' = [pc EXCEPT ![c] = "append"]
    /\ in_memory_store' = [in_memory_store EXCEPT ![frame[c].key] = frame[c].kept]
    /\ UNCHANGED <<redis_client, max_requests, window_seconds, now, redis_zset, redis_ttl,
                   frame, result, history, calls, routeVars>>

\* line 56: self.in_memory_store[key].append(current)
ThreadAppend(c) ==
    /\ pc[c] = "append"
    /\ pc' = [pc EXCEPT ![c] = "count"]
    /\ in_memory_store' = [in_memory_store EXCEPT ![frame[c].key] =
                              Append(@, frame[c].current)]
    /\ UNCHANGED <<redis_client, max_requests, window_seconds, now, redis_zset, redis_ttl,
                   frame, result, history, calls, routeVars>>

\* lines 58-59: request_count = len(self.in_memory_store[key]) and the return
ThreadReturn(c) ==
    /\ pc[c] = "count"
    /\ LET f == frame[c]
           count == Len(in_memory_store[f.key])
       IN /\ result' = Finished(f.op, f.key, max_requests, Allowed(count, max_requests),
                                count, FALSE)
          /\ history' = [history EXCEPT ![f.key] = Append(@, f.current)]
    /\ pc' = [pc EXCEPT ![c] = "idle"]
    /\ frame' = [frame EXCEPT ![c] = NoFrame]
    /\ UNCHANGED <<redis_client, max_requests, window_seconds, now, in_memory_store, redis_zset,
                   redis_ttl, calls, routeVars>>

\* the key the threads check
SharedKey == "user1"

NextThreads ==
    \/ Tick
    \/ \E c \in Callers : ThreadEnter(c, SharedKey)
    \/ \E c \in Callers : ThreadPrune(c)
    \/ \E c \in Callers : ThreadStore(c)
    \/ \E c \in Callers : ThreadAppend(c)
    \/ \E c \in Callers : ThreadReturn(c)

\* the limiter is built without a shared store
InitThreads == Init /\ ~redis_client

SpecThreads == InitThreads /\ [][NextThreads]_vars

\* ------------------------------------------------------ the submit route
\* the limiter's state as one value
Limiter == [mem |-> in_memory_store, zset |-> redis_zset, ttl |-> redis_ttl]

\* how a command sent to the shared store ends: it ran and answered, it ran and the
\* reply was lost (the client raises), or it did not run (the client raises)
StoreOutcomes == {"ok", "lost", "down"}

\* check_rate_limit(key, max_requests, window_seconds) called at tick t, lines 16-59:
\* the limiter's state after it and the (allowed, count) it returns
CheckRateLimit(lim, key, t, outcome) ==
    IF ~redis_client
    THEN [lim |-> [lim EXCEPT !.mem = CheckMemoryStore(lim.mem, key, t, window_seconds)],
          allowed |-> Allowed(CheckMemoryCount(lim.mem, key, t, window_seconds), max_requests),
          count |-> CheckMemoryCount(lim.mem, key, t, window_seconds)]
    ELSE LET ran == [lim EXCEPT
                        !.zset[key] = RedisPipelineSet(lim.zset, lim.ttl, key, Seconds(t),
                                                       window_seconds, t),
                        !.ttl[key] = RedisPipelineTTL(t, window_seconds)]
             count == RedisPipelineCount(lim.zset, lim.ttl, key, Seconds(t), window_seconds, t)
         IN CASE outcome = "ok" ->
                    [lim |-> ran, allowed |-> Allowed(count, max_requests), count |-> count]
              [] outcome = "lost" ->
                    [lim |-> ran, allowed |-> FailOpen.allowed, count |-> FailOpen.count]
              [] OTHER ->
                    [lim |-> lim, allowed |-> FailOpen.allowed, count |-> FailOpen.count]

\* faulty variant of HandlerRuns: the route handler runs whatever the limiter said
HandlerRunsAlways(allowed) == TRUE

\* rate_limit.wrapper, lines 88-111: the route handler is called only when the check allowed
HandlerRuns(allowed) == allowed

\* rate_limit.wrapper, lines 89-91 and analyze_pr's TaskResponse: the status of the response
ResponseStatus(allowed) == IF allowed THEN 200 ELSE 429

\* faulty variant of PendingTask: the record is created already Processing
PendingTaskStarted == [status |-> "processing", results |-> "None", error |-> "None"]

\* analyze_pr, lines 536-541: the status, results and error of a new job's record
PendingTask == [status |-> "pending", results |-> "None", error |-> "None"]

\* save_task, line 479: data.model_dump(mode='json')
ModelDump(data) ==
    [status |-> data.status, results |-> data.results, error |-> data.error]

\* TaskStatus, lines 33-37
TaskStatus == {"pending", "processing", "completed", "failed"}

\* save_task, line 482: json.dumps(data_dict), the text kept under "task:<id>"
JsonDumps(data_dict) == [syntax |-> "object", members |-> data_dict]

\* get_task, line 493: json.loads(data) raises on a text that is not JSON
JsonDecodable(text) == text.syntax = "object"
JsonLoads(text) == text.members

\* texts under "task:<id>" that save_task did not write: not JSON, a JSON object
\* without the required fields, a JSON object whose status is no TaskStatus
CorruptPayloads ==
    {[syntax |-> "garbage", members |-> [raw |-> "x"]],
     [syntax |-> "object", members |-> [error |-> "None"]],
     [syntax |-> "object",
      members |-> [status |-> "archived", results |-> "None", error |-> "None"]]}

\* redis_client.get of a key that is not there (or has expired) answers None
NoPayload == [syntax |-> "None", members |-> [raw |-> ""]]

\* save_task, lines 480-487: the in-process map after saving
SaveTaskMemory(store, task_id, data, outcome) ==
    IF redis_client /\ outcome = "ok" THEN store
    ELSE [i \in DOMAIN store \cup {task_id} |->
             IF i = task_id THEN ModelDump(data) ELSE store[i]]

\* save_task, line 482: the shared store after redis_client.set(key, json, ex=86400)
SaveTaskRedis(rtasks, task_id, data, outcome, t) ==
    IF redis_client /\ outcome \in {"ok", "lost"}
    THEN [i \in DOMAIN rtasks \cup {task_id} |->
             IF i = task_id
             THEN [value |-> JsonDumps(ModelDump(data)),
                   expire_at |-> t + TaskTTLSeconds * TicksPerSecond]
             ELSE rtasks[i]]
    ELSE rtasks

InitRoute ==
    /\ redis_client \in BOOLEAN
    /\ max_requests = RouteMaxRequests
    /\ window_seconds = RouteWindowSeconds
    /\ now = 0
    /\ in_memory_store = [k \in Keys |-> <<>>]
    /\ redis_zset = [k \in Keys |-> {}]
    /\ redis_ttl = [k \in Keys |-> NoTTL]
    /\ pc = [c \in Callers |-> "idle"]
    /\ frame = [c \in Callers |-> NoFrame]
    /\ result = NoResult
    /\ history = [k \in Keys |-> <<>>]
    /\ calls = 0
    /\ tasks_store = <<>>
    /\ redis_tasks = <<>>
    /\ background_tasks = <<>>
    /\ response = NoResponse
    /\ submitted = [h \in Clients |-> <<>>]
    /\ faults = 0
    /\ ProcessorIdle
    /\ orch = NoOrch
    /\ review = NoReview

\* a stretch of time passes with no request
RouteTick ==
    /\ now + RouteJumpSeconds * TicksPerSecond <= MaxRouteClock * TicksPerSecond
    /\ now' = now + RouteJumpSeconds * TicksPerSecond
    /\ UNCHANGED <<redis_client, max_requests, window_seconds, in_memory_store, redis_zset,
                   redis_ttl, pc, frame, result, history, calls, routeVars>>

\* number of the given store commands that raised
Raised(outcomes) == Cardinality({i \in DOMAIN outcomes : outcomes[i] # "ok"})

\* POST /analyze-pr from `host`, denied: rate_limit.wrapper lines 85-103
SubmitDenied(host, o1) ==
    LET c1 == CheckRateLimit(Limiter, LimitKey(host), now, o1)
    IN /\ calls < MaxSubmits
       /\ IF redis_client THEN faults + Raised(<<o1>>) <= MaxFaults ELSE o1 = "ok"
       /\ ~HandlerRuns(c1.allowed)
       /\ calls' = calls + 1
       /\ faults' = faults + Raised(<<o1>>)
       /\ in_memory_store' = c1.lim.mem
       /\ redis_zset' = c1.lim.zset
       /\ redis_ttl' = c1.lim.ttl
       /\ response' = [status |-> ResponseStatus(c1.allowed), client |-> host,
                       allowed |-> c1.allowed, task_id |-> 0, task_status |-> "None",
                       remaining_header |-> 0]
       /\ submitted' = [submitted EXCEPT ![host] = Append(@, now)]
       /\ UNCHANGED <<redis_client, max_requests, window_seconds, now, pc, frame, result,
                      history, jobVars, procVars, orch, review>>

\* POST /analyze-pr from `host`, admitted: rate_limit.wrapper lines 85-119 around
\* analyze_pr lines 533-558 (the wrapper and the handler run without yielding, and
\* the check and get_remaining_requests read the clock within one tick)
SubmitAdmitted(host, o1, o2, o3) ==
    LET c1 == CheckRateLimit(Limiter, LimitKey(host), now, o1)
        c2 == CheckRateLimit(c1.lim, LimitKey(host), now, o2)
        remaining == Remaining(max_requests, c2.count)
        task_id == Len(background_tasks) + 1
    IN /\ calls < MaxSubmits
       /\ IF redis_client THEN faults + Raised(<<o1, o2, o3>>) <= MaxFaults
          ELSE o1 = "ok" /\ o2 = "ok" /\ o3 = "ok"
       /\ HandlerRuns(c1.allowed)
       /\ calls' = calls + 1
       /\ faults' = faults + Raised(<<o1, o2, o3>>)
       /\ in_memory_store' = c2.lim.mem
       /\ redis_zset' = c2.lim.zset
       /\ redis_ttl' = c2.lim.ttl
       /\ tasks_store' = SaveTaskMemory(tasks_store, task_id, PendingTask, o3)
       /\ redis_tasks' = SaveTaskRedis(redis_tasks, task_id, PendingTask, o3, now)
       /\ background_tasks' = Append(background_tasks, task_id)
       /\ response' = [status |-> ResponseStatus(c1.allowed), client |-> host,
                       allowed |-> c1.allowed, task_id |-> task_id,
                       task_status |-> PendingTask.status,
                       remaining_header |-> remaining - 1]
       /\ submitted' = [submitted EXCEPT ![host] = Append(@, now)]
       /\ UNCHANGED <<redis_client, max_requests, window_seconds, now, pc, frame, result,
                      history, procVars, orch, review>>

NextRoute ==
    \/ RouteTick
    \/ \E h \in Clients, o1 \in StoreOutcomes : SubmitDenied(h, o1)
    \/ \E h \in Clients, o1, o2, o3 \in StoreOutcomes : SubmitAdmitted(h, o1, o2, o3)

SpecRoute == InitRoute /\ [][NextRoute]_vars

\* ------------------------------------------------------- the job store
\* TaskData(**d), lines 111-117: pydantic accepts d when the required fields are there
\* and status is a TaskStatus value
TaskDataValid(d) == "status" \in DOMAIN d /\ d.status \in TaskStatus

\* TaskData(**d): the record built, results and error defaulting to None
TaskData(d) ==
    [status |-> d.status,
     results |-> IF "results" \in DOMAIN d THEN d.results ELSE "None",
     error |-> IF "error" \in DOMAIN d THEN d.error ELSE "None"]

\* what get_task hands to its caller: a TaskData, None, or an exception
NoTask == [status |-> "None", results |-> "None", error |-> "None"]
Found(data) == [raised |-> FALSE, found |-> TRUE, data |-> data]
Absent == [raised |-> FALSE, found |-> FALSE, data |-> NoTask]
Raises == [raised |-> TRUE, found |-> FALSE, data |-> NoTask]

\* redis_client.get(f"task:{task_id}") at tick t, line 492
RedisGet(rtasks, task_id, t) ==
    IF task_id \in DOMAIN rtasks /\ t < rtasks[task_id].expire_at
    THEN rtasks[task_id].value
    ELSE NoPayload

\* get_task, lines 495-497 and 498-500: data_dict = tasks_store.get(task_id);
\* TaskData(**data_dict) if data_dict else None, outside any try
MemoryLookup(store, task_id) ==
    IF task_id \notin DOMAIN store THEN Absent
    ELSE IF TaskDataValid(store[task_id]) THEN Found(TaskData(store[task_id]))
    ELSE Raises

\* faulty variant of GetTask: the job is never found
GetTaskNever(store, rtasks, task_id, outcome, t) == Absent

\* get_task, lines 489-500, called at tick t; `outcome` is how redis_client.get ends
GetTask(store, rtasks, task_id, outcome, t) ==
    IF redis_client /\ outcome = "ok"
    THEN LET data == RedisGet(rtasks, task_id, t)
         IN IF data = NoPayload THEN Absent
            ELSE IF JsonDecodable(data) /\ TaskDataValid(JsonLoads(data))
                 THEN Found(TaskData(JsonLoads(data)))
                 ELSE MemoryLookup(store, task_id)
    ELSE MemoryLookup(store, task_id)

\* ------------------------------------------------- the job processor
\* the reports CodeReviewAgentSystem.analyze_pr can return and the messages the
\* input retrieval can fail with (_fetch_pr_data_tool, line 207: {"error": str(e)})
Reports == {"report1", "report2"}
FetchErrors == {"404 Not Found", "timed out"}

\* how agent_system = CodeReviewAgentSystem(...); agent_system.analyze_pr(...) ends,
\* lines 509-511: the constructor raises (no GROQ_API_KEY), agent_executor.invoke
\* raises, the fetch answers an error, a finding is refused by Issue(...), or a
\* report is returned
AnalysisOutcomes ==
    {[kind |-> "constructor", value |-> "GROQ_API_KEY not found in environment variables"],
     [kind |-> "executor", value |-> "executor failed"],
     [kind |-> "finding", value |-> "validation error for Issue"]}
    \cup {[kind |-> "fetch", value |-> m] : m \in FetchErrors}
    \cup {[kind |-> "report", value |-> r] : r \in Reports}

\* faulty variant of ErrorOf: the message is dropped
ErrorOfNone(outcome) == "None"

\* str(e) for the exception analyze_pr raises, lines 425-426 and 520-525
ErrorOf(outcome) == outcome.value

\* the store commands named may end as given: the shared store raises at most
\* MaxFaults times in a run, and never when it is not configured
MayEnd(outcomes) ==
    IF redis_client THEN faults + Raised(outcomes) <= MaxFaults
    ELSE \A i \in DOMAIN outcomes : outcomes[i] = "ok"

\* the task ids whose process_pr_analysis was dispatched
Dispatched == 1..Len(background_tasks)

\* if task_data: task_data.<fields> = ...; save_task(task_id, task_data): the two
\* stores after it, and the status saved (nothing when get_task answered None)
Update(task_data, task_id, new_data, save) ==
    IF task_data.found
    THEN /\ tasks_store' = SaveTaskMemory(tasks_store, task_id, new_data, save)
         /\ redis_tasks' = SaveTaskRedis(redis_tasks, task_id, new_data, save, now)
         /\ written' = [written EXCEPT ![task_id] = Append(@, new_data.status)]
    ELSE /\ save = "ok"
         /\ UNCHANGED <<tasks_store, redis_tasks, written>>

\* process_pr_analysis, lines 503-507: the first read and the Processing save
ProcStart(task_id, get, save) ==
    LET task_data == GetTask(tasks_store, redis_tasks, task_id, get, now)
    IN /\ task_id \in Dispatched \cap JobIds
       /\ proc[task_id].pc = "idle"
       /\ MayEnd(<<get, save>>)
       /\ faults' = faults + Raised(<<get, save>>)
       /\ Update(task_data, task_id, [task_data.data EXCEPT !.status = "processing"], save)
       /\ proc' = [proc EXCEPT ![task_id] =
                      IF task_data.raised
                      THEN [@ EXCEPT !.pc = "failing", !.error = "validation error for TaskData"]
                      ELSE [@ EXCEPT !.pc = "analyzing"]]
       /\ UNCHANGED <<limiterVars, background_tasks, response, submitted, query, orch, review>>

\* process_pr_analysis, lines 509-511: the agent system is built and analyze_pr
\* runs (main.py 416-476); it fetches once unless it failed before the fetch, and
\* calls the analyzer only after a fetch that answered
ProcAnalyze(task_id, outcome) ==
    /\ task_id \in JobIds
    /\ proc[task_id].pc = "analyzing"
    /\ proc' = [proc EXCEPT ![task_id] =
                   [pc |-> IF outcome.kind = "report" THEN "completing" ELSE "failing",
                    results |-> IF outcome.kind = "report" THEN outcome.value ELSE "None",
                    error |-> IF outcome.kind = "report" THEN "None" ELSE ErrorOf(outcome),
                    fetches |-> IF outcome.kind \in {"constructor", "executor"} THEN 0 ELSE 1,
                    analyses |-> IF outcome.kind \in {"finding", "report"} THEN 1 ELSE 0]]
    /\ UNCHANGED <<limiterVars, jobVars, response, submitted, faults, written, query, orch, review>>

\* process_pr_analysis, lines 514-518: the second read and the Completed save
ProcComplete(task_id, get, save) ==
    LET task_data == GetTask(tasks_store, redis_tasks, task_id, get, now)
    IN /\ task_id \in JobIds
       /\ proc[task_id].pc = "completing"
       /\ MayEnd(<<get, save>>)
       /\ faults' = faults + Raised(<<get, save>>)
       /\ Update(task_data, task_id,
                 [task_data.data EXCEPT !.status = "completed",
                                        !.results = proc[task_id].results], save)
       /\ proc' = [proc EXCEPT ![task_id] =
                      IF task_data.raised
                      THEN [@ EXCEPT !.pc = "failing", !.error = "validation error for TaskData"]
                      ELSE [@ EXCEPT !.pc = "done"]]
       /\ UNCHANGED <<limiterVars, background_tasks, response, submitted, query, orch, review>>

\* process_pr_analysis, lines 520-528: the except branch, its read and the Failed save
ProcFail(task_id, get, save) ==
    LET task_data == GetTask(tasks_store, redis_tasks, task_id, get, now)
    IN /\ task_id \in JobIds
       /\ proc[task_id].pc = "failing"
       /\ MayEnd(<<get, save>>)
       /\ faults' = faults + Raised(<<get, save>>)
       /\ Update(task_data, task_id,
                 [task_data.data EXCEPT !.status = "failed",
                                        !.error = proc[task_id].error], save)
       /\ proc' = [proc EXCEPT ![task_id].pc = "done"]
       /\ UNCHANGED <<limiterVars, background_tasks, response, submitted, query, orch, review>>

\* ------------------------------------------------------ the read routes
\* how a read of the shared store ends: it answers, or the client raises
ReadOutcomes == {"ok", "down"}

\* the ids asked for: every id submit can hand out, and one it never hands out
UnknownId == 0
QueryIds == JobIds \cup {UnknownId}

\* faulty variant of GetStatusResponse: a job found is always reported pending
GetStatusResponsePending(task_data, task_id) ==
    [NoQuery EXCEPT !.op = "get_status", !.task_id = task_id,
                    !.code = IF task_data.found THEN 200 ELSE 404,
                    !.status = IF task_data.found THEN "pending" ELSE "None"]

\* faulty variant of GetResultsResponse: whatever is stored is handed out with 200
GetResultsResponseEager(task_data, task_id) ==
    [NoQuery EXCEPT !.op = "get_results", !.task_id = task_id,
                    !.code = IF task_data.found THEN 200 ELSE 404,
                    !.status = task_data.data.status,
                    !.results = task_data.data.results]

\* get_status, lines 564-575: the response to GET /status/{task_id}
GetStatusResponse(task_data, task_id) ==
    IF task_data.raised
    THEN [NoQuery EXCEPT !.op = "get_status", !.task_id = task_id, !.raised = TRUE]
    ELSE IF ~task_data.found
    THEN [NoQuery EXCEPT !.op = "get_status", !.task_id = task_id, !.code = 404]
    ELSE [NoQuery EXCEPT !.op = "get_status", !.task_id = task_id, !.code = 200,
                         !.status = task_data.data.status, !.error = task_data.data.error]

\* get_results, lines 577-594: the response to GET /results/{task_id}
GetResultsResponse(task_data, task_id) ==
    LET r == [NoQuery EXCEPT !.op = "get_results", !.task_id = task_id]
        data == task_data.data
    IN IF task_data.raised THEN [r EXCEPT !.raised = TRUE]
       ELSE IF ~task_data.found THEN [r EXCEPT !.code = 404]
       ELSE IF data.status \in {"pending", "processing"}
       THEN [r EXCEPT !.code = 202, !.status = data.status]
       ELSE IF data.status = "failed"
       THEN [r EXCEPT !.code = 500, !.status = data.status, !.error = data.error]
       ELSE IF data.status = "completed"
       THEN [r EXCEPT !.code = 200, !.status = "completed", !.results = data.results]
       ELSE [r EXCEPT !.code = 500, !.status = "unknown"]

\* GET /status/{task_id}
GetStatus(task_id, get) ==
    /\ MayEnd(<<get>>)
    /\ faults' = faults + Raised(<<get>>)
    /\ query' = GetStatusResponse(GetTask(tasks_store, redis_tasks, task_id, get, now), task_id)
    /\ UNCHANGED <<limiterVars, jobVars, response, submitted, proc, written, orch, review>>

\* GET /results/{task_id}
GetResults(task_id, get) ==
    /\ MayEnd(<<get>>)
    /\ faults' = faults + Raised(<<get>>)
    /\ query' = GetResultsResponse(GetTask(tasks_store, redis_tasks, task_id, get, now), task_id)
    /\ UNCHANGED <<limiterVars, jobVars, response, submitted, proc, written, orch, review>>

\* the client whose submissions are followed through the processor
JobClients == {"hostA"}

\* POST /analyze-pr, admitted, while fewer than MaxJobs jobs were created
JobSubmit(host, o1, o2, o3) ==
    /\ Len(background_tasks) < MaxJobs
    /\ SubmitAdmitted(host, o1, o2, o3)

NextJobs ==
    \/ \E h \in JobClients, o1, o2, o3 \in StoreOutcomes : JobSubmit(h, o1, o2, o3)
    \/ \E id \in JobIds, get \in ReadOutcomes, save \in StoreOutcomes : ProcStart(id, get, save)
    \/ \E id \in JobIds, outcome \in AnalysisOutcomes : ProcAnalyze(id, outcome)
    \/ \E id \in JobIds, get \in ReadOutcomes, save \in StoreOutcomes :
          ProcComplete(id, get, save)
    \/ \E id \in JobIds, get \in ReadOutcomes, save \in StoreOutcomes : ProcFail(id, get, save)

SpecJobs == InitRoute /\ [][NextJobs]_vars

\* BackgroundTasks runs every dispatched process_pr_analysis, and each of its calls
\* (the store commands, the fetch, the analyzer) returns: a started step is taken
ProcStep(task_id) ==
    \/ \E get \in ReadOutcomes, save \in StoreOutcomes : ProcStart(task_id, get, save)
    \/ \E outcome \in AnalysisOutcomes : ProcAnalyze(task_id, outcome)
    \/ \E get \in ReadOutcomes, save \in StoreOutcomes : ProcComplete(task_id, get, save)
    \/ \E get \in ReadOutcomes, save \in StoreOutcomes : ProcFail(task_id, get, save)

SpecJobsFair == SpecJobs /\ \A id \in JobIds : WF_vars(ProcStep(id))

\* the processor, with a client that asks for status and results at any moment
QuerySubmit(host, o1, o2, o3) ==
    /\ Len(background_tasks) < MaxQueryJobs
    /\ SubmitAdmitted(host, o1, o2, o3)

NextQuery ==
    \/ \E h \in JobClients, o1, o2, o3 \in StoreOutcomes : QuerySubmit(h, o1, o2, o3)
    \/ \E id \in JobIds, get \in ReadOutcomes, save \in StoreOutcomes : ProcStart(id, get, save)
    \/ \E id \in JobIds, outcome \in AnalysisOutcomes : ProcAnalyze(id, outcome)
    \/ \E id \in JobIds, get \in ReadOutcomes, save \in StoreOutcomes :
          ProcComplete(id, get, save)
    \/ \E id \in JobIds, get \in ReadOutcomes, save \in StoreOutcomes : ProcFail(id, get, save)
    \/ \E id \in QueryIds, get \in ReadOutcomes : GetStatus(id, get)
    \/ \E id \in QueryIds, get \in ReadOutcomes : GetResults(id, get)

SpecQuery == InitRoute /\ [][NextQuery]_vars

\* ------------------------------------------------------ the orchestrator
\* AgentOrchestrator.__init__, lines 26-31: the roster, in the order of the dict
AgentOrder == <<"security", "performance", "architecture", "quality">>
Agents == {AgentOrder[i] : i \in DOMAIN AgentOrder}

\* the file of the pull request the analyzers are given in context["files"]
FileName == "app.py"

\* an item without a "file" key, and a "line" that is None
NoFileKey == "<no file key>"
NoLine == -1000

\* the items the language model's reply for a file can hold: the file (or no "file"
\* key), the line, and the grade in the analyzer's own field (severity, or impact for
\* the performance analyzer)
PlainIssue == [file |-> NoFileKey, line |-> 3, grade |-> "critical"]
IssueKinds ==
    {[file |-> "app.py", line |-> 3, grade |-> "high"],
     [file |-> "", line |-> 0, grade |-> "critical"]}

RECURSIVE SeqsUpTo(_, _)
SeqsUpTo(S, n) ==
    IF n = 0 THEN {<<>>}
    ELSE LET shorter == SeqsUpTo(S, n - 1)
         IN shorter \cup {Append(l, x) : l \in shorter, x \in S}

\* what parse_json_response makes of the reply, base_agent.py 133-145: a list of
\* items, another JSON value, or the raw text when the reply is not JSON
ListPayloads(kinds) == {[shape |-> "list", items |-> l] : l \in SeqsUpTo(kinds, MaxFindings)}
ObjectPayload == [shape |-> "object", items |-> <<>>]
TextPayload == [shape |-> "text", items |-> <<>>]

\* SecurityAgent._analyze_file, lines 156-159: an item without a file gets the filename
WithFileName(issues, filename) ==
    [i \in DOMAIN issues |->
        [issues[i] EXCEPT !.file = IF @ = NoFileKey THEN filename ELSE @]]

\* SecurityAgent._sanitize_issues, lines 134-146
SanitizeIssues(issues) ==
    [i \in DOMAIN issues |->
        [issues[i] EXCEPT !.line = IF @ # NoLine /\ @ < 1 THEN NoLine ELSE @,
                          !.file = IF @ = NoFileKey \/ @ = "" THEN "unknown" ELSE @]]

\* _analyze_file of the four analyzers (security_agent.py 148-172 with
\* _comprehensive_scan 35-70 on code without secrets, performance_agent.py 96-110,
\* architecture_agent.py 94-109, quality_agent.py 94-108): the issues of one file
AnalyzeFile(agent_key, filename, payload) ==
    IF payload.shape # "list" THEN <<>>
    ELSE IF agent_key = "security"
         THEN SanitizeIssues(WithFileName(payload.items, filename))
         ELSE payload.items

\* how agent.analyze(context) ends: it raises, or the reply for the file gives its issues
AnalyzeRaises ==
    [raises |-> TRUE, message |-> "max_workers must be greater than 0",
     payload |-> TextPayload]
AnalyzeReturns(payloads) ==
    {[raises |-> FALSE, message |-> "None", payload |-> p] : p \in payloads}

\* the outcomes followed under every schedule of the pool, and those followed when the
\* analyzers finish one after the other
AnalyzeOutcomes == {AnalyzeRaises} \cup AnalyzeReturns(ListPayloads({PlainIssue}))
ReplyOutcomes ==
    {AnalyzeRaises}
    \cup AnalyzeReturns(ListPayloads(IssueKinds) \cup {ObjectPayload, TextPayload})

\* analyze, all_issues: the issues of the files of the context, which has one file
AllIssues(agent_key, outcome) == AnalyzeFile(agent_key, FileName, outcome.payload)

\* pr_data["files"] as analyze_pr is given it: no file, or the one file
ContextFiles == {<<>>, <<FileName>>}

\* faulty variant of AnalyzeEnds: an empty pool is accepted
AnalyzeEndsAnyPool(files, outcome) == outcome

\* analyze of the four analyzers, security_agent.py 103, performance_agent.py 65,
\* architecture_agent.py 64, quality_agent.py 64: ThreadPoolExecutor(max_workers=
\* min(5, len(files))) raises ValueError when the context has no file
AnalyzeEnds(files, outcome) == IF Len(files) = 0 THEN AnalyzeRaises ELSE outcome

\* the function f with the value v at the key k
Put(f, k, v) == [x \in DOMAIN f \cup {k} |-> IF x = k THEN v ELSE f[x]]

\* the "summary" an analyzer builds from its issues: security_agent.py 125-131,
\* performance_agent.py 88-93, architecture_agent.py 86-91, quality_agent.py 86-91
\* (the keys the orchestrator reads)
AgentSummary(agent_key, issues) ==
    LET graded(g) == CountIf(issues, LAMBDA i : i.grade = g)
    IN CASE agent_key = "security" ->
               [total_issues |-> Len(issues), critical |-> graded("critical"),
                high |-> graded("high")]
         [] agent_key = "performance" ->
               [total_issues |-> Len(issues), high_impact |-> graded("high")]
         [] OTHER ->
               [total_issues |-> Len(issues), high_severity |-> graded("high")]

\* faulty variant of ErrorEntry: the entry carries no message
ErrorEntrySilent(agent_key, message) ==
    [agent |-> agent_key, error |-> "None", issues |-> <<>>, summary |-> <<>>]

\* orchestrator.py 120-125 and 166-171: the entry of an analyzer that failed
ErrorEntry(agent_key, message) ==
    [agent |-> agent_key, error |-> message, issues |-> <<>>, summary |-> <<>>]

\* what analyze returns (the real entry has no "error" key)
AgentResult(agent_key, issues) ==
    [agent |-> agent_key, error |-> "None", issues |-> issues,
     summary |-> AgentSummary(agent_key, issues)]

\* faulty variant of RunAgent: the exception of analyze is left in the future
RunAgentUnguarded(agent_key, outcome) ==
    [raised |-> outcome.raises, message |-> outcome.message,
     value |-> AgentResult(agent_key, AllIssues(agent_key, outcome))]

\* _run_agent, lines 160-171: what the future holds when the call is over
RunAgent(agent_key, outcome) ==
    [raised |-> FALSE, message |-> "None",
     value |-> IF outcome.raises THEN ErrorEntry(agent_key, outcome.message)
               ELSE AgentResult(agent_key, AllIssues(agent_key, outcome))]

\* _update_progress, lines 40-49: the events the callback has received
UpdateProgress(progress, sink, agent_key, status) ==
    IF sink THEN Append(progress, [agent |-> agent_key, status |-> status]) ELSE progress

\* the sets of event statuses on which a callback may raise
SinkFaults ==
    {{"starting"}, {"analyzing"}, {"completed"}, {"error"}, {"analyzing", "error"},
     {"completed", "error"}}

\* str(e) of the exception the callback raises
SinkMessage == "callback failed"

\* faulty variant of SinkRaises: _update_progress swallows what the callback raises
SinkRaisesNever(o, status) == FALSE

\* _update_progress, lines 42-49: the callback is called unguarded, so what it raises
\* on the event is raised by _update_progress
SinkRaises(o, status) == o.sink /\ status \in o.raising

\* analyze_pr, lines 64-77
InitialResults ==
    [agents |-> <<>>,
     summary |-> [total_agents |-> Cardinality(Agents), agents_completed |-> 0,
                  total_issues |-> 0, critical_issues |-> 0, high_priority_issues |-> 0],
     files |-> <<>>]

\* faulty variant of SummaryValue: a key that is not there counts for 1
SummaryValueOne(agent_summary, key) ==
    IF key \in DOMAIN agent_summary THEN agent_summary[key] ELSE 1

\* faulty variant of SummaryValue: the key is never found
SummaryValueMissing(agent_summary, key) == 0

\* analyze_pr, lines 103-114: agent_summary[key] when the key is there
SummaryValue(agent_summary, key) ==
    IF key \in DOMAIN agent_summary THEN agent_summary[key] ELSE 0

\* faulty variant of TakeIn: total_issues is set to the count of the entry, not raised by it
TakeInOverwrite(results, agent_key, agent_result) ==
    [results EXCEPT
        !.agents = Put(@, agent_key, agent_result),
        !.summary.agents_completed = @ + 1,
        !.summary.total_issues = SummaryValue(agent_result.summary, "total_issues"),
        !.summary.critical_issues = @ + SummaryValue(agent_result.summary, "critical"),
        !.summary.high_priority_issues =
            @ + SummaryValue(agent_result.summary, "high")
              + SummaryValue(agent_result.summary, "high_severity")
              + SummaryValue(agent_result.summary, "high_impact")]

\* analyze_pr, lines 99-114: results after the entry of a finished analyzer is taken in
TakeIn(results, agent_key, agent_result) ==
    LET agent_summary == agent_result.summary
    IN [results EXCEPT
           !.agents = Put(@, agent_key, agent_result),
           !.summary.agents_completed = @ + 1,
           !.summary.total_issues = @ + SummaryValue(agent_summary, "total_issues"),
           !.summary.critical_issues = @ + SummaryValue(agent_summary, "critical"),
           !.summary.high_priority_issues =
               @ + SummaryValue(agent_summary, "high")
                 + SummaryValue(agent_summary, "high_severity")
                 + SummaryValue(agent_summary, "high_impact")]

\* analyze_pr, line 134: filename = issue.get("file", "unknown")
FileOf(issue) == IF issue.file = NoFileKey THEN "unknown" ELSE issue.file

\* faulty variant of IssuesWithAgent: the issues of the first entry only
IssuesWithAgentFirst(agents, order) ==
    IF order = <<>> THEN <<>>
    ELSE [i \in DOMAIN agents[Head(order)].issues |->
             [file |-> agents[Head(order)].issues[i].file,
              line |-> agents[Head(order)].issues[i].line,
              grade |-> agents[Head(order)].issues[i].grade,
              detected_by |-> Head(order)]]

\* analyze_pr, lines 131-145: every issue of every entry, tagged with detected_by, in
\* the order of results["agents"]
RECURSIVE IssuesWithAgent(_, _)
IssuesWithAgent(agents, order) ==
    IF order = <<>> THEN <<>>
    ELSE LET agent_key == Head(order)
             issues == agents[agent_key].issues
         IN [i \in DOMAIN issues |->
                [file |-> issues[i].file, line |-> issues[i].line,
                 grade |-> issues[i].grade, detected_by |-> agent_key]]
            \o IssuesWithAgent(agents, Tail(order))

\* analyze_pr, lines 129-153: file_issues_map
FileIssuesMap(agents, order) ==
    LET all == IssuesWithAgent(agents, order)
        names == {FileOf(all[i]) : i \in DOMAIN all}
    IN [f \in names |->
           LET issues == SelectSeq(all, LAMBDA i : FileOf(i) = f)
           IN [name |-> f,
               issues |-> issues,
               agent_breakdown |->
                   [a \in {issues[i].detected_by : i \in DOMAIN issues} |->
                       CountIf(issues, LAMBDA i : i.detected_by = a)]]]

\* analyze_pr is called, lines 61-89: results is set up, every analyzer is announced
\* and its _run_agent submitted to the pool
OrchCall(sink, files, raising) ==
    /\ orch.phase = "idle"
    /\ LET called == [NoOrch EXCEPT !.sink = sink, !.raising = raising, !.files = files,
                                    !.results = InitialResults]
       IN orch' = IF SinkRaises(called, "starting")
                  \* line 86 is outside the try: the exception leaves analyze_pr
                  THEN [called EXCEPT
                           !.phase = "raised",
                           !.progress = UpdateProgress(<<>>, sink, Head(AgentOrder),
                                                       "starting")]
                  ELSE [called EXCEPT
                           !.phase = "running",
                           !.progress =
                               IF sink
                               THEN [i \in DOMAIN AgentOrder |->
                                        [agent |-> AgentOrder[i], status |-> "starting"]]
                               ELSE <<>>]
    /\ UNCHANGED <<limiterVars, jobVars, response, submitted, faults, procVars,
                   review>>

\* a pool thread finishes _run_agent for one analyzer, lines 160-171
AgentFinish(agent_key, outcome) ==
    /\ orch.phase = "running"
    /\ agent_key \notin DOMAIN orch.futures
    /\ LET ends == AnalyzeEnds(orch.files, outcome)
       IN orch' = [orch EXCEPT !.outcome = Put(@, agent_key, ends),
                               !.futures = Put(@, agent_key, RunAgent(agent_key, ends)),
                               !.finished = Append(@, agent_key)]
    /\ UNCHANGED <<limiterVars, jobVars, response, submitted, faults, procVars,
                   review>>

\* as_completed(futures) is entered, line 92: the futures that are already done are
\* set apart, the others are waited for
AsCompleted ==
    /\ orch.phase = "running"
    /\ ~orch.snapped
    /\ orch' = [orch EXCEPT !.snapped = TRUE, !.early = DOMAIN orch.futures]
    /\ UNCHANGED <<limiterVars, jobVars, response, submitted, faults, procVars,
                   review>>

\* the futures as_completed may yield next, line 92: one of those that were done when
\* it was entered, in the order of a set, and after them the others as they finish
YieldedNext(o) ==
    LET early == o.early \ DOMAIN o.results.agents
        late == SelectSeq(o.finished,
                          LAMBDA a : a \notin o.early /\ a \notin DOMAIN o.results.agents)
    IN IF early # {} THEN early
       ELSE IF late # <<>> THEN {Head(late)} ELSE {}

\* faulty variant of AsCompletedExhausted: the loop is left at once
AsCompletedExhaustedEarly(o) == o.snapped

\* the loop of line 92 ends: as_completed has yielded every future of the roster
AsCompletedExhausted(o) == o.snapped /\ DOMAIN o.results.agents = Agents

\* one turn of `for future in as_completed(futures)`, lines 92-126
Collect(agent_key) ==
    /\ orch.phase = "running"
    /\ orch.snapped
    /\ agent_key \in YieldedNext(orch)
    /\ LET future == orch.futures[agent_key]
           analyzing == UpdateProgress(orch.progress, orch.sink, agent_key, "analyzing")
           completed == UpdateProgress(analyzing, orch.sink, agent_key, "completed")
           \* lines 97-98 raise: the callback on "analyzing", or future.result()
           early == SinkRaises(orch, "analyzing") \/ future.raised
           \* line 116 raises: the callback on "completed", the totals being added
           late == ~early /\ SinkRaises(orch, "completed")
           message == IF SinkRaises(orch, "analyzing") \/ late THEN SinkMessage
                      ELSE future.message
           taken == TakeIn(orch.results, agent_key, future.value)
           \* lines 118-125: the except branch stores an error entry
           failed(results) ==
               [results EXCEPT !.agents = Put(@, agent_key, ErrorEntry(agent_key, message))]
       IN orch' = [orch EXCEPT
                      !.results = IF early THEN failed(orch.results)
                                  ELSE IF late THEN failed(taken) ELSE taken,
                      !.collected = Append(@, agent_key),
                      !.progress =
                          IF early THEN UpdateProgress(analyzing, orch.sink, agent_key, "error")
                          ELSE IF late
                               THEN UpdateProgress(completed, orch.sink, agent_key, "error")
                               ELSE completed,
                      \* line 126 is inside the except branch: what the callback
                      \* raises on "error" leaves analyze_pr
                      !.phase = IF (early \/ late) /\ SinkRaises(orch, "error")
                                THEN "raised" ELSE @]
    /\ UNCHANGED <<limiterVars, jobVars, response, submitted, faults, procVars,
                   review>>

\* every future was collected: the issues are grouped by file and the report is
\* returned, lines 128-158
OrchReturn ==
    /\ orch.phase = "running"
    /\ AsCompletedExhausted(orch)
    /\ LET files == FileIssuesMap(orch.results.agents, orch.collected)
       IN orch' = [orch EXCEPT
                      !.phase = "returned",
                      !.results.files = files,
                      !.results.summary =
                          [k \in DOMAIN @ \cup {"total_files"} |->
                              IF k = "total_files" THEN Cardinality(DOMAIN files)
                              ELSE @[k]]]
    /\ UNCHANGED <<limiterVars, jobVars, response, submitted, faults, procVars,
                   review>>

NextOrch ==
    \/ \E sink \in BOOLEAN, files \in ContextFiles : OrchCall(sink, files, {})
    \/ \E a \in Agents, outcome \in AnalyzeOutcomes : AgentFinish(a, outcome)
    \/ AsCompleted
    \/ \E a \in Agents : Collect(a)
    \/ OrchReturn

\* the orchestrator is followed on its own: nothing else of the service runs
InitOrch == InitRoute /\ ~redis_client

SpecOrch == InitOrch /\ [][NextOrch]_vars

\* the analyzers of the roster before agent_key have finished
InTurn(agent_key) ==
    \A i, j \in DOMAIN AgentOrder :
       (i < j /\ AgentOrder[j] = agent_key) => AgentOrder[i] \in DOMAIN orch.futures

\* the schedule in which the loop of line 92 is entered before any analyzer is done
\* and the analyzers finish in the order of the roster, with every reply they can get
NextReports ==
    \/ \E sink \in BOOLEAN, files \in ContextFiles : OrchCall(sink, files, {})
    \/ orch.futures = <<>> /\ AsCompleted
    \/ \E a \in Agents, outcome \in ReplyOutcomes :
          orch.snapped /\ InTurn(a) /\ AgentFinish(a, outcome)
    \/ \E a \in Agents : Collect(a)
    \/ OrchReturn

SpecReports == InitOrch /\ [][NextReports]_vars

\* the same schedule with a progress callback that raises on some of the events
NextSink ==
    \/ \E files \in ContextFiles, raising \in SinkFaults : OrchCall(TRUE, files, raising)
    \/ orch.futures = <<>> /\ AsCompleted
    \/ \E a \in Agents, outcome \in AnalyzeOutcomes :
          orch.snapped /\ InTurn(a) /\ AgentFinish(a, outcome)
    \/ \E a \in Agents : Collect(a)
    \/ OrchReturn

SpecSink == InitOrch /\ [][NextSink]_vars

\* ------------------------------------------------- the single-agent review
\* main.py 25-31: IssueType
IssueTypes == {"bug", "style", "performance", "security", "maintainability", "readability"}

\* the items the language model's reply for a file can hold
ReviewItems ==
    {[file |-> NoFileKey, line |-> 12, type |-> "bug", description |-> "d", suggestion |-> "s"],
     [file |-> "app.py", line |-> NoLine, type |-> "style", description |-> "d",
      suggestion |-> "s"],
     [file |-> "app.py", line |-> 0, type |-> "security", description |-> "d",
      suggestion |-> "s"],
     [file |-> "app.py", line |-> 3, type |-> "quality", description |-> "d",
      suggestion |-> "s"],
     [file |-> "app.py", line |-> 3, type |-> "bug", description |-> "", suggestion |-> "s"]}

\* the reply parsed by json.loads: a list of items, another JSON value, or no JSON
ReviewReplies == ListPayloads(ReviewItems) \cup {ObjectPayload, TextPayload}

\* the files of a pull request as the fetch gives them (main.py 202, agent.py 46-49):
\* the i-th has the i-th name, an empty patch or a diff, and the reply it would get
FileNames == <<"app.py", "lib.py", "cli.py", "api.py">>
FileData(i) ==
    {[filename |-> FileNames[i], patch |-> "", reply |-> TextPayload]}
    \cup {[filename |-> FileNames[i], patch |-> "diff", reply |-> r] : r \in ReviewReplies}

RECURSIVE FilesUpTo(_)
FilesUpTo(n) ==
    IF n = 0 THEN {<<>>}
    ELSE LET shorter == FilesUpTo(n - 1)
         IN shorter \cup {Append(l, f) : l \in {x \in shorter : Len(x) = n - 1},
                                          f \in FileData(n)}

\* what the fetch answers: an error, or the files of the pull request
PullRequests ==
    {[error |-> m, files |-> <<>>] : m \in FetchErrors}
    \cup {[error |-> "None", files |-> fs] : fs \in FilesUpTo(MaxFiles)}

\* _analyze_code_tool, lines 241-247: the finding put in place of no finding
SyntheticIssue(filename) ==
    [file |-> filename, line |-> NoLine, type |-> "readability",
     description |-> "Model returned no issues", suggestion |-> "Review manually"]

\* faulty variant of AnalyzeCodeTool: a file without a patch is analyzed as well
AnalyzeCodeToolAlways(filename, patch, reply) ==
    IF reply.shape # "list" \/ reply.items = <<>>
    THEN [error |-> "None", issues |-> <<SyntheticIssue(filename)>>, called |-> 1]
    ELSE [error |-> "None", issues |-> reply.items, called |-> 1]

\* _analyze_code_tool(filename, patch), lines 209-263: the error and the issues of
\* the JSON text it returns, and whether the language model was called
AnalyzeCodeTool(filename, patch, reply) ==
    IF patch = "" THEN [error |-> "None", issues |-> <<>>, called |-> 0]
    ELSE IF reply.shape = "text"
         THEN [error |-> "Expecting value", issues |-> <<>>, called |-> 1]
         ELSE IF reply.shape # "list" \/ reply.items = <<>>
              THEN [error |-> "None", issues |-> <<SyntheticIssue(filename)>>, called |-> 1]
              ELSE [error |-> "None", issues |-> reply.items, called |-> 1]

\* analyze_pr, lines 441-447: the arguments Issue(...) gets from an item
IssueArguments(issue_data, filename) ==
    [issue_data EXCEPT !.file = IF @ = NoFileKey THEN filename ELSE @]

\* Issue, lines 51-59: the validation of the fields
IssueValid(issue) ==
    /\ issue.line = NoLine \/ issue.line >= 1
    /\ issue.type \in IssueTypes
    /\ issue.description # ""
    /\ issue.suggestion # ""

\* analyze_pr, line 450: issue.type in [IssueType.BUG, IssueType.SECURITY]
IsCritical(issue) == issue.type \in {"bug", "security"}

\* analyze_pr, lines 430-458: the loop over the files from the locals `acc` on; it
\* stops at the first item Issue(...) refuses
RECURSIVE ReviewFiles(_, _)
ReviewFiles(files, acc) ==
    IF files = <<>> \/ acc.raised THEN acc
    ELSE LET filename == Head(files).filename
             analysis_data == AnalyzeCodeTool(filename, Head(files).patch, Head(files).reply)
             issues == [i \in DOMAIN analysis_data.issues |->
                           IssueArguments(analysis_data.issues[i], filename)]
         IN ReviewFiles(Tail(files),
               IF \E i \in DOMAIN issues : ~IssueValid(issues[i])
               THEN [acc EXCEPT !.raised = TRUE, !.analyses = @ + analysis_data.called]
               ELSE [acc EXCEPT
                        !.analyzed_files =
                            Append(@, [name |-> filename, issues |-> issues,
                                       error |-> analysis_data.error]),
                        !.total_issues = @ + Len(issues),
                        !.critical_issues = @ + CountIf(issues, IsCritical),
                        !.analyses = @ + analysis_data.called])

\* CodeReviewAgentSystem.analyze_pr, lines 416-476, once agent_executor.invoke has
\* returned: how it ends for what the fetch answers, and the analyzer calls it made
SystemAnalyzePR(pr_data) ==
    IF pr_data.error # "None"
    THEN [kind |-> "fetch", value |-> pr_data.error, analyses |-> 0]
    ELSE LET acc == ReviewFiles(pr_data.files,
                                [analyzed_files |-> <<>>, total_issues |-> 0,
                                 critical_issues |-> 0, analyses |-> 0, raised |-> FALSE])
         IN IF acc.raised
            THEN [kind |-> "finding", value |-> "validation error for Issue",
                  analyses |-> acc.analyses]
            ELSE IF acc.critical_issues > acc.total_issues
                 THEN [kind |-> "finding",
                       value |-> "Critical issues cannot exceed total issues",
                       analyses |-> acc.analyses]
                 ELSE [kind |-> "report",
                       value |-> [files |-> acc.analyzed_files,
                                  summary |-> [total_files |-> Len(acc.analyzed_files),
                                               total_issues |-> acc.total_issues,
                                               critical_issues |-> acc.critical_issues]],
                       analyses |-> acc.analyses]

\* process_pr_analysis, lines 509-511, with what analyze_pr is given by the fetch
ProcReview(task_id, pr_data) ==
    LET outcome == SystemAnalyzePR(pr_data)
    IN /\ task_id \in JobIds
       /\ proc[task_id].pc = "analyzing"
       /\ proc' = [proc EXCEPT ![task_id] =
                      [pc |-> IF outcome.kind = "report" THEN "completing" ELSE "failing",
                       results |-> IF outcome.kind = "report" THEN outcome.value ELSE "None",
                       error |-> IF outcome.kind = "report" THEN "None" ELSE ErrorOf(outcome),
                       fetches |-> 1,
                       analyses |-> outcome.analyses]]
       /\ review' = [agent |-> "CodeReviewAgentSystem", pr_data |-> pr_data,
                     outcome |-> outcome]
       /\ UNCHANGED <<limiterVars, jobVars, response, submitted, faults, written, query,
                      orch>>

\* CodeReviewAgent.analyze_file_diff, agent.py 52-118
AnalyzeFileDiff(file_data) ==
    IF file_data.patch = "" THEN [name |-> file_data.filename, issues |-> <<>>, called |-> 0]
    ELSE [name |-> file_data.filename,
          issues |-> IF file_data.reply.shape = "list" THEN file_data.reply.items ELSE <<>>,
          called |-> 1]

\* CodeReviewAgent.analyze_pr, agent.py 125-138: the loop over the files
RECURSIVE AgentReviewFiles(_, _)
AgentReviewFiles(files, acc) ==
    IF files = <<>> THEN acc
    ELSE LET analysis == AnalyzeFileDiff(Head(files))
         IN AgentReviewFiles(Tail(files),
               [acc EXCEPT
                   !.analyzed_files = Append(@, [name |-> analysis.name,
                                                 issues |-> analysis.issues]),
                   !.total_issues = @ + Len(analysis.issues),
                   !.critical_issues = @ + CountIf(analysis.issues, IsCritical),
                   !.analyses = @ + analysis.called])

\* CodeReviewAgent.analyze_pr, agent.py 121-154
AgentAnalyzePR(pr_data) ==
    IF pr_data.error # "None"
    THEN [kind |-> "fetch", value |-> "Failed to fetch PR data", analyses |-> 0]
    ELSE LET acc == AgentReviewFiles(pr_data.files,
                                     [analyzed_files |-> <<>>, total_issues |-> 0,
                                      critical_issues |-> 0, analyses |-> 0])
         IN [kind |-> "report",
             value |-> [files |-> acc.analyzed_files,
                        summary |-> [total_files |-> Len(acc.analyzed_files),
                                     total_issues |-> acc.total_issues,
                                     critical_issues |-> acc.critical_issues]],
             analyses |-> acc.analyses]

\* tasks.py 36-40: the task of the queue worker calls CodeReviewAgent.analyze_pr
AgentReview(pr_data) ==
    /\ review.agent = "none"
    /\ review' = [agent |-> "CodeReviewAgent", pr_data |-> pr_data,
                  outcome |-> AgentAnalyzePR(pr_data)]
    /\ UNCHANGED <<limiterVars, jobVars, response, submitted, faults, procVars, orch>>

\* one job of the processor, or one call of the queue worker's agent, with every pull
\* request the fetch can answer
NextReview ==
    \/ /\ review.agent = "none" /\ background_tasks = <<>>
       /\ \E h \in JobClients, o1, o2, o3 \in StoreOutcomes : SubmitAdmitted(h, o1, o2, o3)
    \/ \E id \in JobIds, get \in ReadOutcomes, save \in StoreOutcomes : ProcStart(id, get, save)
    \/ \E id \in JobIds :
          proc[id].pc = "analyzing" /\ \E pr_data \in PullRequests : ProcReview(id, pr_data)
    \/ \E id \in JobIds, get \in ReadOutcomes, save \in StoreOutcomes :
          ProcComplete(id, get, save)
    \/ \E id \in JobIds, get \in ReadOutcomes, save \in StoreOutcomes : ProcFail(id, get, save)
    \/ /\ review.agent = "none" /\ background_tasks = <<>>
       /\ \E pr_data \in PullRequests : AgentReview(pr_data)

SpecReview == InitOrch /\ [][NextReview]_vars

\* the two producers of reports, one of them in a run: the orchestrator, or a
\* single-agent review
NextCore ==
    \/ review.agent = "none" /\ background_tasks = <<>> /\ NextReports
    \/ orch.phase = "idle" /\ NextReview

SpecCore == InitOrch /\ [][NextCore]_vars

\* ------------------------------------------------- the store layer alone
\* the records the routes and the processor hand to save_task
JobRecords ==
    {PendingTask,
     [PendingTask EXCEPT !.status = "processing"],
     [PendingTask EXCEPT !.status = "completed", !.results = "report1"],
     [PendingTask EXCEPT !.status = "failed", !.error = "timed out"]}

\* save_task(task_id, data), lines 478-487
StoreSave(task_id, data, save) ==
    /\ calls < MaxSaves
    /\ MayEnd(<<save>>)
    /\ calls' = calls + 1
    /\ faults' = faults + Raised(<<save>>)
    /\ tasks_store' = SaveTaskMemory(tasks_store, task_id, data, save)
    /\ redis_tasks' = SaveTaskRedis(redis_tasks, task_id, data, save, now)
    /\ written' = [written EXCEPT ![task_id] = Append(@, data.status)]
    /\ UNCHANGED <<redis_client, max_requests, window_seconds, now, in_memory_store,
                   redis_zset, redis_ttl, pc, frame, result, history, background_tasks,
                   response, submitted, proc, query, orch, review>>

\* another writer of the shared store leaves a text under "task:<id>" that
\* save_task would not have written
StoreCorrupt(task_id, text) ==
    /\ redis_client
    /\ task_id \in DOMAIN redis_tasks
    /\ redis_tasks' = [redis_tasks EXCEPT ![task_id].value = text]
    /\ UNCHANGED <<limiterVars, tasks_store, background_tasks, response, submitted, faults,
                   procVars, orch, review>>

\* what the caller of get_task(task_id) gets
GetTaskAnswer(task_data, task_id) ==
    [NoQuery EXCEPT !.op = "get_task", !.task_id = task_id, !.raised = task_data.raised,
                    !.status = task_data.data.status, !.results = task_data.data.results,
                    !.error = task_data.data.error]

\* get_task(task_id), lines 489-500
StoreGet(task_id, get) ==
    /\ MayEnd(<<get>>)
    /\ faults' = faults + Raised(<<get>>)
    /\ query' = GetTaskAnswer(GetTask(tasks_store, redis_tasks, task_id, get, now), task_id)
    /\ UNCHANGED <<limiterVars, jobVars, response, submitted, proc, written, orch, review>>

NextStore ==
    \/ \E id \in JobIds, data \in JobRecords, save \in StoreOutcomes : StoreSave(id, data, save)
    \/ \E id \in JobIds, text \in CorruptPayloads : StoreCorrupt(id, text)
    \/ \E id \in JobIds, get \in ReadOutcomes : StoreGet(id, get)

SpecStore == InitRoute /\ [][NextStore]_vars

\* ------------------------------------------------- limiter properties
\* the window, in the unit of the backend's timestamps (ticks in memory, seconds in the store)
WindowUnits == IF redis_client THEN window_seconds ELSE window_seconds * TicksPerSecond

\* the time read by the check `result` reports, and the checks of its key finished before it
ResultAt == history[result.key][Len(history[result.key])]
ResultEarlier == Front(history[result.key])

\* a limiter call of key k finishes in this step
Finishes(k) == history'[k] # history[k]

\* the entries of key k that a check reading time `at` at tick t finds inside its window
InWindowBefore(k, at, t) ==
    IF redis_client
    THEN Cardinality(ZRemRangeByScore(RedisLive(redis_zset, redis_ttl, k, t), 0,
                                      at - window_seconds))
    ELSE Len(MemoryKept(in_memory_store[k], at, window_seconds))

\* C1: in memory, the k-th check of a key made within one window reports count k
\* (denied calls are recorded too) and is allowed exactly when k <= max_requests.
C1_MemoryKthCallCountsK ==
    (~redis_client /\ result.op # "none"
        /\ \A i \in 1..Len(history[result.key]) :
              history[result.key][i] > ResultAt - WindowUnits)
    => /\ result.count = Len(history[result.key])
       /\ result.allowed = (Len(history[result.key]) <= max_requests)

C1_Witness ==
    /\ ~redis_client
    /\ result.op = "check"
    /\ Len(history[result.key]) = max_requests + 1
    /\ \A i \in 1..Len(history[result.key]) :
          history[result.key][i] > ResultAt - WindowUnits
    /\ result.count = max_requests + 1
    /\ ~result.allowed

\* C2: with the shared store reachable, every check adds exactly one entry to the
\* key's window, so the count it reports is one more than the entries it found there.
C2_SharedStoreAddsOneEntryPerCall ==
    [][\A c \in Callers :
          (redis_client /\ pc[c] = "pipe" /\ pc'[c] = "idle" /\ ~result'.raised)
          => result'.count = InWindowBefore(frame[c].key, frame[c].current, now) + 1]_vars

\* C3: on both backends a check that did not raise is allowed exactly when the count
\* it reports is <= max_requests, and that count is the size of the key's window.
C3_AllowedIffCountWithinLimit ==
    [][\A k \in Keys :
          (Finishes(k) /\ ~result'.raised)
          => /\ result'.key = k
             /\ result'.allowed = (result'.count <= max_requests)
             /\ result'.count = IF redis_client THEN Cardinality(redis_zset'[k])
                                ELSE Len(in_memory_store'[k])]_vars

C3_Witness ==
    /\ redis_client
    /\ result.op = "check"
    /\ ~result.raised
    /\ result.count = max_requests
    /\ result.allowed
    /\ max_requests > 1

\* C4: a check counts, besides itself, only earlier checks of its key that lie inside
\* its trailing window; when every earlier check has left the window it reports 1.
C4_SlidingWindow ==
    (result.op # "none" /\ ~result.raised)
    => /\ result.count <= 1 + CountIf(ResultEarlier, LAMBDA x : x >= ResultAt - WindowUnits)
       /\ (\A i \in 1..Len(ResultEarlier) : ResultEarlier[i] < ResultAt - WindowUnits)
          => result.count = 1

C4_Witness ==
    /\ ~redis_client
    /\ max_requests = 1
    /\ Len(ResultEarlier) >= 2
    /\ \A i \in 1..Len(ResultEarlier) : ResultEarlier[i] < ResultAt - WindowUnits
    /\ result.count = 1

\* C5: when the pipeline of a configured shared store raises, the check returns
\* (allowed, 0) and leaves the in-memory windows alone.
C5_FailOpen ==
    [][\A k \in Keys :
          (Finishes(k) /\ result'.raised)
          => /\ redis_client
             /\ result'.key = k
             /\ result'.allowed
             /\ result'.count = 0
             /\ in_memory_store' = in_memory_store]_vars

C5_Witness ==
    /\ redis_client
    /\ result.raised
    /\ result.allowed
    /\ result.count = 0
    /\ Cardinality(redis_zset[result.key]) > max_requests

\* C6: two checks of one key that finish one after the other within one window and do
\* not raise report different counts.
C6_ConcurrentCountsDistinct ==
    [][\A k \in Keys :
          (redis_client /\ Finishes(k) /\ result.op # "none" /\ result.key = k
              /\ ~result.raised /\ ~result'.raised /\ Len(history'[k]) >= 2
              /\ history'[k][Len(history'[k])] - history[k][Len(history[k])] < window_seconds
              /\ history[k][Len(history[k])] - history'[k][Len(history'[k])] < window_seconds)
          => result'.count # result.count]_vars

\* C7: a limiter call of one key changes neither the window nor the record of
\* another key, on either backend.
C7_PerKeyIsolation ==
    [][\A k \in Keys :
          Finishes(k)
          => \A b \in Keys \ {k} :
                /\ in_memory_store'[b] = in_memory_store[b]
                /\ redis_zset'[b] = redis_zset[b]
                /\ redis_ttl'[b] = redis_ttl[b]
                /\ history'[b] = history[b]]_vars

C7_Witness ==
    /\ ~redis_client
    /\ Len(in_memory_store["user1"]) = 2
    /\ Len(in_memory_store["user2"]) = 1
    /\ result.key = "user1"
    /\ result.count = 2

\* what get_remaining_requests does besides computing its result: one check of key k
RemainingIsOneCheck(k) ==
    /\ Len(history'[k]) = Len(history[k]) + 1
    /\ result'.key = k
    /\ result'.remaining = Max(0, max_requests - result'.count)
    /\ result'.remaining >= 0
    /\ \A b \in Keys \ {k} : in_memory_store'[b] = in_memory_store[b]
                             /\ redis_zset'[b] = redis_zset[b]

\* the time read by the call of key k that finishes in this step
FinishingAt(k) == history'[k][Len(history'[k])]

\* C8 as stated: get_remaining_requests is one check and returns max(0, N - c); the
\* result is 0 whenever at least N requests are already in the window.
C8_RemainingAsStated ==
    [][\A k \in Keys :
          (Finishes(k) /\ result'.op = "remaining")
          => /\ RemainingIsOneCheck(k)
             /\ InWindowBefore(k, FinishingAt(k), now) >= max_requests
                => result'.remaining = 0]_vars

\* C8 amended: get_remaining_requests is one check and returns max(0, N - c) for the
\* count c that check reports; the result is 0 whenever c >= N, so whenever at least N
\* requests are already in the window and the check did not raise; when the shared
\* store raises, c is 0 and the result is N.
C8_RemainingAmended ==
    [][\A k \in Keys :
          (Finishes(k) /\ result'.op = "remaining")
          => /\ RemainingIsOneCheck(k)
             /\ result'.count >= max_requests => result'.remaining = 0
             /\ (InWindowBefore(k, FinishingAt(k), now) >= max_requests /\ ~result'.raised)
                => result'.remaining = 0
             /\ result'.raised => result'.remaining = max_requests]_vars

C8_Witness ==
    /\ result.op = "remaining"
    /\ ~result.raised
    /\ result.count > max_requests
    /\ result.remaining = 0

\* --------------------------------------------------- route properties
\* a submission of `host` is answered in this step
Submitting(host) == Len(submitted'[host]) = Len(submitted[host]) + 1

\* the submissions of the last answered client, the time of the last one, and how
\* many earlier ones lie within the window that ends at it
LastSubmitted == submitted[response.client]
LastSubmittedAt == LastSubmitted[Len(LastSubmitted)]
EarlierInWindow ==
    CountIf(Front(LastSubmitted),
            LAMBDA x : x > LastSubmittedAt - RouteWindowSeconds * TicksPerSecond)

\* C9: with the in-memory limiter and the route's policy (10 per 60 s), a submission
\* with fewer than 10 earlier submissions of its client in the window is admitted,
\* and the one with 10 earlier ones is denied.
C9_FirstTenSubmissionsAdmitted ==
    (~redis_client /\ response.status # 0)
    => /\ EarlierInWindow < RouteMaxRequests => response.status = 200
       /\ EarlierInWindow = RouteMaxRequests => response.status = 429

StoredWithStatus(store, rtasks, task_id, status) ==
    \/ task_id \in DOMAIN store /\ store[task_id].status = status
    \/ /\ task_id \in DOMAIN rtasks
       /\ JsonDecodable(rtasks[task_id].value)
       /\ JsonLoads(rtasks[task_id].value).status = status

\* a submission is admitted in this step
Admits == Len(background_tasks') = Len(background_tasks) + 1

\* C11: an admitted submission stores the job as Pending and answers its id with
\* status pending while the dispatched process_pr_analysis has not started; the
\* submit step itself makes no fetch and no analyzer call.
C11_SubmitStoresPendingBeforeAnalysis ==
    [][Admits =>
          LET id == Len(background_tasks')
          IN /\ StoredWithStatus(tasks_store', redis_tasks', id, "pending")
             /\ response'.status = 200
             /\ response'.task_id = id
             /\ response'.task_status = "pending"
             /\ background_tasks'[id] = id
             /\ proc'[id].pc = "idle"
             /\ \A j \in JobIds : /\ proc'[j].fetches = proc[j].fetches
                                  /\ proc'[j].analyses = proc[j].analyses]_vars

C11_Witness ==
    /\ response.status = 200
    /\ response.task_id = 2
    /\ proc[2].pc = "idle"
    /\ StoredWithStatus(tasks_store, redis_tasks, 2, "pending")
    /\ proc[1].fetches = 1
    /\ proc[1].analyses = 1

\* the statuses saved for a job since it was created, the Pending of submit first
StatusesWritten(task_id) == <<"pending">> \o written[task_id]

IsPrefix(s, t) == Len(s) <= Len(t) /\ s = SubSeq(t, 1, Len(s))

\* the place of a status in the order Pending < Processing < Completed, Failed
Rank(status) ==
    CASE status = "pending" -> 1
      [] status = "processing" -> 2
      [] status \in {"completed", "failed"} -> 3
      [] OTHER -> 0

\* the status a caller reads for the job when the store answers
StatusRead(store, rtasks, task_id) == GetTask(store, rtasks, task_id, "ok", now).data.status

\* C12: while no store command has failed (the backend stays in one mode), the
\* statuses written for a job are Pending, Processing, then exactly one of Completed
\* or Failed, nothing is written after a terminal status, and the status read for a
\* job never moves back in that order.
C12_StatusStateMachine ==
    [][faults' = 0 =>
          \A id \in Dispatched \cap JobIds :
             /\ \/ IsPrefix(StatusesWritten(id)', <<"pending", "processing", "completed">>)
                \/ IsPrefix(StatusesWritten(id)', <<"pending", "processing", "failed">>)
             /\ proc'[id].pc = "done" => Len(StatusesWritten(id)') = 3
             /\ Rank(StatusRead(tasks_store', redis_tasks', id))
                   >= Rank(StatusRead(tasks_store, redis_tasks, id))
             /\ Rank(StatusRead(tasks_store, redis_tasks, id)) >= 1]_vars

C12_Witness ==
    /\ faults = 0
    /\ redis_client
    /\ proc[1].pc = "done"
    /\ proc[2].pc = "done"
    /\ StatusesWritten(1) = <<"pending", "processing", "completed">>
    /\ StatusesWritten(2) = <<"pending", "processing", "failed">>
    /\ StatusRead(tasks_store, redis_tasks, 1) = "completed"
    /\ StatusRead(tasks_store, redis_tasks, 2) = "failed"

\* the job records kept in either store
StoredRecords ==
    {tasks_store[id] : id \in DOMAIN tasks_store}
    \cup {TaskData(JsonLoads(redis_tasks[id].value)) : id \in DOMAIN redis_tasks}

\* C13: every job record in either store has results exactly when its status is
\* Completed and an error exactly when its status is Failed.
C13_ResultsIffCompletedErrorIffFailed ==
    \A r \in StoredRecords :
       /\ (r.results # "None") <=> (r.status = "completed")
       /\ (r.error # "None") <=> (r.status = "failed")

C13_Witness ==
    /\ redis_client
    /\ faults > 0
    /\ \E r \in StoredRecords : r.status = "completed" /\ r.results \in Reports
    /\ \E r \in StoredRecords : r.status = "failed" /\ r.error \in FetchErrors
    /\ \E r \in StoredRecords : r.status = "processing"
    /\ \A id \in JobIds : proc[id].pc = "done"

\* C14: every dispatched job is eventually read back as Completed or Failed, when
\* the background task is run and all its calls return.
C14_DispatchedJobEndsTerminal ==
    \A id \in JobIds :
       (id \in Dispatched)
       ~> (StatusRead(tasks_store, redis_tasks, id) \in {"completed", "failed"})

\* the job's process_pr_analysis has returned after its fetch answered an error
FetchFailed(task_id) == proc[task_id].pc = "done" /\ proc[task_id].error \in FetchErrors

\* what get_task answers for the job when the store answers
TaskRead(task_id) == GetTask(tasks_store, redis_tasks, task_id, "ok", now).data

\* C18: a job whose input retrieval failed ends Failed with the upstream message as
\* its error; it is never Completed and no report is stored for it.
C18_FetchFailureEndsFailed ==
    \A id \in JobIds :
       FetchFailed(id)
       => /\ TaskRead(id).status = "failed"
          /\ TaskRead(id).error = proc[id].error
          /\ TaskRead(id).results = "None"

\* ------------------------------------------------- read route properties
\* a read route answers in this step, and what its get_task call returned (the store
\* command raised exactly when the step counted a fault)
Answers(op) == query' # query /\ query'.op = op
TaskAnswered ==
    GetTask(tasks_store, redis_tasks, query'.task_id,
            IF faults' = faults THEN "ok" ELSE "down", now)

\* C15: get_results answers in every job state: 404 when get_task finds no job, 202
\* and no report for a Pending or Processing job, a failed response (500) carrying
\* the job's error for a Failed job, the stored report with status completed for a
\* Completed job.
C15_GetResultsTotal ==
    [][Answers("get_results") =>
          LET job == TaskAnswered.data
          IN /\ ~query'.raised
             /\ ~TaskAnswered.found => query'.code = 404 /\ query'.results = "None"
             /\ (TaskAnswered.found /\ job.status \in {"pending", "processing"})
                => query'.code = 202 /\ query'.results = "None"
             /\ (TaskAnswered.found /\ job.status = "failed")
                => /\ query'.code = 500
                   /\ query'.status = "failed"
                   /\ query'.error = job.error
                   /\ query'.results = "None"
             /\ (TaskAnswered.found /\ job.status = "completed")
                => /\ query'.code = 200
                   /\ query'.status = "completed"
                   /\ query'.results = job.results
                   /\ query'.results \in Reports]_vars

C15_Witness ==
    /\ query.op = "get_results"
    /\ query.task_id = 1
    /\ query.code = 200
    /\ query.results \in Reports
    /\ TaskRead(1).results = query.results

\* C16: get_status answers 404 when get_task finds no job and otherwise the stored
\* status with the stored error, in every job state, and leaves both stores as they
\* were.
C16_GetStatusReportsStored ==
    [][Answers("get_status") =>
          LET job == TaskAnswered.data
          IN /\ ~query'.raised
             /\ ~TaskAnswered.found => query'.code = 404 /\ query'.status = "None"
             /\ TaskAnswered.found
                => /\ query'.code = 200
                   /\ query'.status = job.status
                   /\ query'.error = job.error
             /\ tasks_store' = tasks_store
             /\ redis_tasks' = redis_tasks]_vars

C16_Witness ==
    /\ query.op = "get_status"
    /\ query.task_id = 1
    /\ query.code = 200
    /\ query.status = "failed"
    /\ query.error \in FetchErrors
    /\ TaskRead(1).error = query.error

\* the text kept for the id is missing, or is not the JSON of a job record
PayloadUnusable(task_id) ==
    IF redis_client
    THEN LET data == RedisGet(redis_tasks, task_id, now)
         IN data = NoPayload \/ ~JsonDecodable(data) \/ ~TaskDataValid(JsonLoads(data))
    ELSE task_id \notin DOMAIN tasks_store \/ ~TaskDataValid(tasks_store[task_id])

\* C17: get_task on an id whose persisted payload is missing or corrupt returns
\* None and does not raise, on both backends.
C17_UnusablePayloadReadsAbsent ==
    [][(Answers("get_task") /\ PayloadUnusable(query'.task_id))
          => ~query'.raised /\ query'.status = "None"]_vars

\* ------------------------------------------------ orchestrator properties
\* analyze_pr has returned its report
Returned == orch.phase = "returned"

\* the issue is listed under its file in the report, tagged with the analyzer
ListedInFiles(issue, agent_key) ==
    /\ FileOf(issue) \in DOMAIN orch.results.files
    /\ \E i \in DOMAIN orch.results.files[FileOf(issue)].issues :
          orch.results.files[FileOf(issue)].issues[i]
             = [file |-> issue.file, line |-> issue.line, grade |-> issue.grade,
                detected_by |-> agent_key]

\* C19: whichever analyzers raise, analyze_pr returns a report in which every other
\* analyzer's findings are all present and every analyzer that raised has an entry
\* with its error message and no findings.
C19_AgentFailureIsolated ==
    /\ orch.phase \in {"idle", "running", "returned"}
    /\ Returned =>
          \A a \in Agents :
             /\ a \in DOMAIN orch.results.agents
             /\ IF orch.outcome[a].raises
                THEN /\ orch.results.agents[a].error = orch.outcome[a].message
                     /\ orch.results.agents[a].error # "None"
                     /\ orch.results.agents[a].issues = <<>>
                ELSE /\ orch.results.agents[a].issues = AllIssues(a, orch.outcome[a])
                     /\ orch.results.agents[a].error = "None"
                     /\ \A i \in DOMAIN AllIssues(a, orch.outcome[a]) :
                           ListedInFiles(AllIssues(a, orch.outcome[a])[i], a)

C19_Witness ==
    /\ Returned
    /\ orch.outcome["security"].raises
    /\ orch.outcome["quality"].raises
    /\ ~orch.outcome["performance"].raises
    /\ Len(orch.results.agents["performance"].issues) = MaxFindings
    /\ Len(orch.results.agents["architecture"].issues) = MaxFindings
    /\ orch.results.agents["security"].error # "None"

\* C20: in every report analyze_pr returns, summary.total_agents is the roster size
\* (4), summary.agents_completed equals it however many analyzers raised, and
\* results.agents has exactly one entry per roster analyzer.
C20_AllAgentsCounted ==
    Returned =>
       /\ orch.results.summary.total_agents = 4
       /\ orch.results.summary.agents_completed = orch.results.summary.total_agents
       /\ DOMAIN orch.results.agents = Agents
       /\ Len(orch.collected) = 4

C20_Witness ==
    /\ Returned
    /\ \A a \in Agents : orch.outcome[a].raises
    /\ orch.results.summary.agents_completed = 4
    /\ orch.results.summary.total_issues = 0

\* the number of issues in the entries of the analyzers of `order`
RECURSIVE IssuesIn(_, _)
IssuesIn(agents, order) ==
    IF order = <<>> THEN 0
    ELSE Len(agents[Head(order)].issues) + IssuesIn(agents, Tail(order))

\* C21: in every report analyze_pr returns, and in the results it builds on the way,
\* summary.total_issues is the sum of len(issues) over the entries of the analyzers;
\* an analyzer that raised has an entry without issues, adds 0, and the report is
\* returned all the same.
C21_TotalIssuesIsSumOfEntries ==
    orch.phase # "idle" =>
       /\ orch.results.summary.total_issues = IssuesIn(orch.results.agents, orch.collected)
       /\ \A a \in DOMAIN orch.results.agents :
             orch.outcome[a].raises => orch.results.agents[a].issues = <<>>
       /\ Returned => DOMAIN orch.results.agents = Agents

C21_Witness ==
    /\ Returned
    /\ orch.outcome["performance"].raises
    /\ \A a \in Agents \ {"performance"} :
          Len(orch.results.agents[a].issues) = MaxFindings
    /\ orch.results.summary.total_issues = 3 * MaxFindings

\* the issue as the report lists it for the analyzer that found it
Tagged(issue, agent_key) ==
    [file |-> issue.file, line |-> issue.line, grade |-> issue.grade,
     detected_by |-> agent_key]

\* agent_breakdown[a] of a file of the report, 0 when the analyzer is not in it
BreakdownOf(file, agent_key) ==
    IF agent_key \in DOMAIN file.agent_breakdown THEN file.agent_breakdown[agent_key]
    ELSE 0

RECURSIVE BreakdownOverFiles(_, _, _)
BreakdownOverFiles(files, names, agent_key) ==
    IF names = {} THEN 0
    ELSE LET f == CHOOSE x \in names : TRUE
         IN BreakdownOf(files[f], agent_key)
            + BreakdownOverFiles(files, names \ {f}, agent_key)

RECURSIVE BreakdownOverAgents(_, _)
BreakdownOverAgents(file, order) ==
    IF order = <<>> THEN 0
    ELSE BreakdownOf(file, Head(order)) + BreakdownOverAgents(file, Tail(order))

\* C22: in every report analyze_pr returns, for every file f and analyzer a,
\* files[f].agent_breakdown[a] is the number of a's findings whose file is f (and a is
\* not in the breakdown when it has none), each such finding is in files[f].issues
\* tagged detected_by = a as many times as a reported it, len(files[f].issues) is the
\* sum of the breakdown, and the breakdown of a summed over the files is the number of
\* a's findings.
C22_PerFileAggregation ==
    Returned =>
       LET files == orch.results.files
           found(a) == orch.results.agents[a].issues
       IN /\ \A a \in Agents : \A i \in DOMAIN found(a) : FileOf(found(a)[i]) \in DOMAIN files
          /\ \A f \in DOMAIN files :
                /\ files[f].name = f
                /\ Len(files[f].issues) = BreakdownOverAgents(files[f], AgentOrder)
                /\ DOMAIN files[f].agent_breakdown \subseteq Agents
                /\ \A a \in Agents :
                      /\ BreakdownOf(files[f], a)
                            = CountIf(found(a), LAMBDA i : FileOf(i) = f)
                      /\ a \in DOMAIN files[f].agent_breakdown
                            => files[f].agent_breakdown[a] > 0
                      /\ \A i \in DOMAIN found(a) :
                            FileOf(found(a)[i]) = f =>
                               CountIf(files[f].issues,
                                       LAMBDA x : x = Tagged(found(a)[i], a))
                                 = CountIf(found(a), LAMBDA x : x = found(a)[i])
          /\ \A a \in Agents :
                BreakdownOverFiles(files, DOMAIN files, a) = Len(found(a))

\* two analyzers have one finding each on app.py: the file lists 2 issues and two
\* breakdown entries of 1
C22_Witness ==
    /\ Returned
    /\ "app.py" \in DOMAIN orch.results.files
    /\ Len(orch.results.files["app.py"].issues) = 2
    /\ orch.results.files["app.py"].agent_breakdown
          = [a \in {"security", "quality"} |-> 1]
    /\ orch.outcome["performance"].raises

\* the findings of the returned report: those of the entries and those listed by file
ReportFindings ==
    UNION {{orch.results.agents[a].issues[i] : i \in DOMAIN orch.results.agents[a].issues} :
              a \in DOMAIN orch.results.agents}
    \cup UNION {{[file |-> orch.results.files[f].issues[i].file,
                  line |-> orch.results.files[f].issues[i].line,
                  grade |-> orch.results.files[f].issues[i].grade] :
                     i \in DOMAIN orch.results.files[f].issues} :
                  f \in DOMAIN orch.results.files}

\* C23: every finding in the report analyze_pr returns, whichever analyzer produced
\* it, has its line absent or at least 1.
C23_LineAbsentOrPositive ==
    Returned => \A issue \in ReportFindings : issue.line = NoLine \/ issue.line >= 1

\* C24: in the report analyze_pr returns, every finding whose file is absent or the
\* empty string is grouped under "unknown", and no bucket has an empty name.
C24_NoFileGroupedUnderUnknown ==
    Returned =>
       /\ "" \notin DOMAIN orch.results.files
       /\ \A f \in DOMAIN orch.results.files :
             \A i \in DOMAIN orch.results.files[f].issues :
                orch.results.files[f].issues[i].file \in {NoFileKey, ""} => f = "unknown"

\* C28: when the reply an analyzer gets for a file cannot be parsed into a list of
\* findings, that analyzer's entry in the report holds exactly one finding, the
\* diagnostic of the parse failure, and not zero findings.
C28_UnparsedReplyGivesDiagnostic ==
    Returned =>
       \A a \in Agents :
          (~orch.outcome[a].raises /\ orch.outcome[a].payload.shape # "list")
             => Len(orch.results.agents[a].issues) = 1

\* C26: analyze_pr groups the issues by file and returns only after every analyzer
\* of the roster has finished and been collected; while an analyzer is still running
\* no report is returned and no file is listed.
C26_FanInJoin ==
    /\ [](Returned => DOMAIN orch.futures = Agents /\ DOMAIN orch.results.agents = Agents)
    /\ [](orch.phase = "running" => orch.results.files = <<>>)
    /\ [][(orch'.phase = "returned" /\ orch.phase # "returned")
             => /\ DOMAIN orch.futures = Agents
                /\ Len(orch.collected) = Cardinality(Agents)]_vars

C26_Witness ==
    /\ Returned
    /\ orch.finished = <<"quality", "architecture", "performance", "security">>
    /\ orch.early = {"quality"}
    /\ orch.results.summary.total_issues = 4 * MaxFindings

\* the places of the events of an analyzer with one of the statuses, and its place in
\* the order in which the analyzers finished
EventsAt(agent_key, statuses) ==
    {i \in DOMAIN orch.progress :
        orch.progress[i].agent = agent_key /\ orch.progress[i].status \in statuses}
FinishedAt(agent_key) == CHOOSE i \in DOMAIN orch.finished : orch.finished[i] = agent_key
Terminal == {"completed", "error"}

\* every analyzer has one "starting" event; it has one terminal event once it is
\* collected and none before, after it finished, and its events are in the order
\* starting, analyzing, terminal
EventsPerAgent ==
    (orch.phase # "idle" /\ orch.sink) =>
       \A a \in Agents :
          /\ Cardinality(EventsAt(a, {"starting"})) = 1
          /\ Cardinality(EventsAt(a, Terminal))
                = IF a \in DOMAIN orch.results.agents THEN 1 ELSE 0
          /\ Cardinality(EventsAt(a, {"analyzing"})) = Cardinality(EventsAt(a, Terminal))
          /\ EventsAt(a, Terminal) # {} => a \in DOMAIN orch.futures
          /\ \A i \in EventsAt(a, {"starting"}), j \in EventsAt(a, {"analyzing"}),
                k \in EventsAt(a, Terminal) : i < j /\ j < k
          /\ Returned => EventsAt(a, Terminal) # {}

\* the terminal events are in the order in which the analyzers finished
TerminalInCompletionOrder ==
    (orch.phase # "idle" /\ orch.sink) =>
       \A a, b \in DOMAIN orch.results.agents :
          \A i \in EventsAt(a, Terminal), j \in EventsAt(b, Terminal) :
             i < j => FinishedAt(a) < FinishedAt(b)

\* C27: with a progress callback, every analyzer of the roster gets exactly one
\* Starting event, before it is dispatched, and exactly one terminal event (Completed
\* or Error), after it finished; the terminal events appear in the order in which the
\* analyzers completed, and for each analyzer the order is Starting, Analyzing,
\* terminal.
C27_ProgressEvents == EventsPerAgent /\ TerminalInCompletionOrder

\* a single-agent analyze_pr call has returned a report
Reported == review.agent # "none" /\ review.outcome.kind = "report"

\* the issues, and the issues of type bug or security, in the files of a report
RECURSIVE IssuesOfFiles(_)
IssuesOfFiles(files) ==
    IF files = <<>> THEN 0 ELSE Len(Head(files).issues) + IssuesOfFiles(Tail(files))
RECURSIVE CriticalOfFiles(_)
CriticalOfFiles(files) ==
    IF files = <<>> THEN 0
    ELSE Cardinality({i \in DOMAIN Head(files).issues :
                        Head(files).issues[i].type \in {"bug", "security"}})
         + CriticalOfFiles(Tail(files))

\* the files of the pull request that have a patch
WithPatch(pr_data) == {i \in DOMAIN pr_data.files : pr_data.files[i].patch # ""}

\* C30: in the report of a single-agent analyze_pr (CodeReviewAgentSystem and
\* CodeReviewAgent), summary.total_files is the number of files of the pull request,
\* summary.total_issues the number of issues over all the files, and
\* summary.critical_issues the number of issues of type bug or security; a file with
\* an empty patch has no issues, and the analyzer is called for no such file.
C30_SingleAgentSummary ==
    /\ review.agent # "none" =>
          review.outcome.analyses <= Cardinality(WithPatch(review.pr_data))
    /\ Reported =>
          LET report == review.outcome.value
              files == review.pr_data.files
          IN /\ report.summary.total_files = Len(files)
             /\ Len(report.files) = Len(files)
             /\ report.summary.total_issues = IssuesOfFiles(report.files)
             /\ report.summary.critical_issues = CriticalOfFiles(report.files)
             /\ review.outcome.analyses = Cardinality(WithPatch(review.pr_data))
             /\ \A i \in DOMAIN files :
                   /\ report.files[i].name = files[i].filename
                   /\ files[i].patch = "" => report.files[i].issues = <<>>

C30_Witness ==
    /\ Reported
    /\ review.agent = "CodeReviewAgentSystem"
    /\ Len(review.pr_data.files) = MaxFiles
    /\ review.pr_data.files[1].patch = ""
    /\ review.outcome.analyses = MaxFiles - 1
    /\ review.outcome.value.summary.total_issues = MaxFindings
    /\ review.outcome.value.summary.critical_issues = MaxFindings
    /\ \E id \in JobIds : proc[id].pc = "done" /\ proc[id].results = review.outcome.value

\* the analyzer's reply for a file of the pull request holds a finding that does not
\* fit the shape of Issue
HasMisfit(pr_data) ==
    \E i \in WithPatch(pr_data) :
       /\ pr_data.files[i].reply.shape = "list"
       /\ \E j \in DOMAIN pr_data.files[i].reply.items :
             LET item == pr_data.files[i].reply.items[j]
             IN \/ item.line # NoLine /\ item.line <= 0
                \/ item.type \notin IssueTypes
                \/ item.description = ""
                \/ item.suggestion = ""

\* C29: in the job processor, a finding of the analyzer that does not fit the shape
\* of Issue (line <= 0, type outside the known set, empty description or suggestion)
\* does not fail the job: the job ends Completed, never Failed.
C29_MisfitFindingDoesNotFailJob ==
    \A id \in JobIds :
       (/\ proc[id].pc = "done"
        /\ review.agent = "CodeReviewAgentSystem"
        /\ review.pr_data.error = "None"
        /\ HasMisfit(review.pr_data))
       => TaskRead(id).status = "completed"

\* C25: in every report the core produces, the summary of the orchestrator and the
\* AnalysisSummary of the job processor (and the summary of the queue worker's
\* agent), critical_issues is at most total_issues.
C25_CriticalAtMostTotal ==
    /\ orch.phase # "idle" =>
          orch.results.summary.critical_issues <= orch.results.summary.total_issues
    /\ Reported =>
          review.outcome.value.summary.critical_issues
             <= review.outcome.value.summary.total_issues
    /\ \A id \in JobIds :
          (id \in DOMAIN tasks_store /\ tasks_store[id].status = "completed")
             => tasks_store[id].results.summary.critical_issues
                   <= tasks_store[id].results.summary.total_issues

C25_Witness ==
    /\ Returned
    /\ orch.results.summary.total_issues = 4 * MaxFindings
    /\ orch.results.summary.critical_issues = MaxFindings
    /\ orch.results.summary.high_priority_issues = 2 * MaxFindings

\* the findings of the entries of the analyzers of `order` that have the grade
RECURSIVE GradedIn(_, _, _)
GradedIn(agents, order, grade) ==
    IF order = <<>> THEN 0
    ELSE CountIf(agents[Head(order)].issues, LAMBDA i : i.grade = grade)
         + GradedIn(agents, Tail(order), grade)

\* the analyzers whose grade is a severity (the performance analyzer gives an impact)
SeverityAgents == <<"security", "architecture", "quality">>

\* summary.high_priority_issues is the number of findings graded "high"
HighPriorityCounted ==
    Returned =>
       orch.results.summary.high_priority_issues
          = GradedIn(orch.results.agents, AgentOrder, "high")

\* C31: in every report analyze_pr returns, summary.high_priority_issues is the
\* number of findings, over the four analyzers, whose severity or impact is "high",
\* and summary.critical_issues is the number of findings whose severity is
\* "critical".
C31_HighAndCriticalCounts ==
    /\ HighPriorityCounted
    /\ Returned =>
          orch.results.summary.critical_issues
             = GradedIn(orch.results.agents, SeverityAgents, "critical")

\* the shared store holds a text for the id that save_task did not write
Overwritten(task_id) ==
    task_id \in DOMAIN redis_tasks /\ redis_tasks[task_id].value \in CorruptPayloads

\* C32: for every pattern of failing and succeeding shared-store calls, once
\* save_task(id, data) has returned, every later get_task(id) within the TTL returns
\* the data saved last for id, never nothing and never an older version, and
\* get_task does not raise to its caller.
C32_ReadAfterWrite ==
    [][(/\ Answers("get_task")
        /\ written[query'.task_id] # <<>>
        /\ ~Overwritten(query'.task_id))
       => /\ ~query'.raised
          /\ query'.status = written[query'.task_id][Len(written[query'.task_id])]]_vars

\* C33: when shared-store calls fail now and then while a job is processed, the
\* statuses a caller reads for it through get_status never return to an earlier
\* state, and a job read once as Completed or Failed is not read later as Pending,
\* Processing or absent.
C33_StatusReadsNeverGoBack ==
    [][(/\ query.op = "get_status" /\ query.code = 200
        /\ query'.op = "get_status" /\ query'.task_id = query.task_id)
       => /\ query'.code = 200
          /\ Rank(query'.status) >= Rank(query.status)
          /\ Rank(query.status) = 3 => query'.status = query.status]_vars

\* no check of the limiter is under way
Quiet == \A c \in Callers : pc[c] = "idle"

\* C34: when two threads call check_rate_limit for the same key at the same time,
\* under every interleaving of their prune, store and append steps both timestamps
\* are recorded in the key's window: once the calls are over, the window holds as
\* many timestamps as checks of the key were made in it.
C34_NoLostUpdate ==
    Quiet =>
       \A key \in DirectKeys :
          CountIf(in_memory_store[key],
                  LAMBDA x : x > MemoryWindowStart(now, window_seconds))
            = CountIf(history[key], LAMBDA x : x > MemoryWindowStart(now, window_seconds))

\* the entry a check of key k finishing in this step would find exactly one window
\* before the time it read
BoundaryEntry(k) == history'[k][Len(history'[k])] - WindowUnits

\* key k holds, when the check runs, an entry recorded exactly one window earlier
HoldsBoundaryEntry(k) ==
    IF redis_client
    THEN BoundaryEntry(k) \in RedisLive(redis_zset, redis_ttl, k, now)
    ELSE \E i \in 1..Len(in_memory_store[k]) : in_memory_store[k][i] = BoundaryEntry(k)

\* C35: on both backends a check keeps an entry recorded exactly window_seconds
\* before it: the entry stays in the key's window and the reported count includes
\* it, so the count is at least 2.
C35_BoundaryEntryCounts ==
    [][\A k \in Keys :
          (Finishes(k) /\ ~result'.raised /\ HoldsBoundaryEntry(k))
          => /\ result'.count >= 2
             /\ IF redis_client
                THEN BoundaryEntry(k) \in redis_zset'[k]
                ELSE \E i \in 1..Len(in_memory_store'[k]) :
                        in_memory_store'[k][i] = BoundaryEntry(k)]_vars

\* C36: when the input has no file, every analyzer of the roster ends without an
\* error and without findings: the report has total_issues 0, no file, and no
\* entry with an error.
C36_NoFilesNoErrors ==
    (Returned /\ orch.files = <<>>)
    => /\ orch.results.summary.total_issues = 0
       /\ DOMAIN orch.results.files = {}
       /\ \A a \in Agents : orch.results.agents[a].error = "None"

\* C39: the terminal event of an analyzer tells how its analyze ended: "error" when
\* analyze raised, "completed" when it returned, and never both in one run.
C39_TerminalEventReflectsOutcome ==
    (orch.phase # "idle" /\ orch.sink) =>
       \A a \in DOMAIN orch.results.agents :
          /\ \A i \in EventsAt(a, Terminal) :
                orch.progress[i].status
                   = IF orch.outcome[a].raises THEN "error" ELSE "completed"
          /\ Cardinality({orch.progress[i].status : i \in EventsAt(a, Terminal)}) <= 1

\* the results when the futures are taken in in the given order
RECURSIVE Gathered(_, _)
Gathered(results, order) ==
    IF order = <<>> THEN results
    ELSE Gathered(TakeIn(results, Head(order), orch.futures[Head(order)].value),
                  Tail(order))

\* the report analyze_pr gives when the analyzers are collected in the order of the
\* roster: its summary and its file buckets
RosterResults == Gathered(InitialResults, AgentOrder)
RosterFiles == FileIssuesMap(RosterResults.agents, AgentOrder)

\* two lists hold the same entries the same number of times
SameEntries(s, t) ==
    /\ Len(s) = Len(t)
    /\ \A i \in DOMAIN s :
          CountIf(s, LAMBDA x : x = s[i]) = CountIf(t, LAMBDA x : x = s[i])

\* C37: whatever the order in which the analyzers complete, the report has the totals,
\* the file buckets, and per file the findings (as a multiset) and the agent_breakdown
\* that the outputs of the analyzers give when collected in the order of the roster.
C37_OrderIndependentFanIn ==
    Returned =>
       LET roster == RosterResults
           files == FileIssuesMap(roster.agents, AgentOrder)
       IN /\ orch.results.agents = roster.agents
          /\ \A k \in {"total_issues", "critical_issues", "high_priority_issues",
                       "agents_completed", "total_agents"} :
                orch.results.summary[k] = roster.summary[k]
          /\ orch.results.summary.total_files = Cardinality(DOMAIN files)
          /\ DOMAIN orch.results.files = DOMAIN files
          /\ \A f \in DOMAIN orch.results.files :
                /\ SameEntries(orch.results.files[f].issues, files[f].issues)
                /\ orch.results.files[f].agent_breakdown = files[f].agent_breakdown

C37_Witness ==
    /\ Returned
    /\ orch.collected = <<"quality", "performance", "security", "architecture">>
    /\ orch.outcome["architecture"].raises
    /\ Len(orch.results.agents["security"].issues) = 1
    /\ Len(orch.results.agents["quality"].issues) = 1
    /\ Len(orch.results.agents["performance"].issues) = 1
    /\ orch.results.summary.total_issues = 3
    /\ DOMAIN orch.results.files = {"app.py", "unknown"}
    /\ orch.results.files["unknown"].issues # RosterFiles["unknown"].issues

\* the findings the analyzers returned, over those whose analyze did not raise
RECURSIVE ReturnedFindings(_)
ReturnedFindings(order) ==
    IF order = <<>> THEN 0
    ELSE (IF orch.outcome[Head(order)].raises THEN 0
          ELSE Len(AllIssues(Head(order), orch.outcome[Head(order)])))
         + ReturnedFindings(Tail(order))

\* C38: a progress callback that raises on some event does not abort the run:
\* analyze_pr returns a report, and every analyzer that returned findings has them in
\* its entry of the report and in the totals.
C38_RaisingSinkDoesNotAbort ==
    /\ orch.phase # "raised"
    /\ Returned =>
          /\ \A a \in Agents :
                ~orch.outcome[a].raises
                   => orch.results.agents[a].issues = AllIssues(a, orch.outcome[a])
          /\ orch.results.summary.total_issues = ReturnedFindings(AgentOrder)
          /\ orch.results.summary.total_issues = IssuesIn(orch.results.agents, AgentOrder)

\* the record of job task_id is saved as Pending in one of the two stores
PendingSaved(task_id) ==
    \/ task_id \in DOMAIN tasks_store /\ tasks_store[task_id].status = "pending"
    \/ /\ task_id \in DOMAIN redis_tasks
       /\ JsonLoads(redis_tasks[task_id].value).status = "pending"

\* process_pr_analysis of job task_id makes its first read in this step
FirstRead(task_id) == proc[task_id].pc = "idle" /\ proc'[task_id].pc # "idle"

\* the parts of C40 that say who writes: the Pending record is there when the
\* background task is dispatched, an id is dispatched once, the read routes leave
\* both stores as they are, and a job is written only by a step of its own processor
OneWriterPerJob ==
    [][/\ \A id \in Dispatched' \ Dispatched : PendingSaved(id)'
       /\ \A i, j \in DOMAIN background_tasks' :
             background_tasks'[i] = background_tasks'[j] => i = j
       /\ (Answers("get_status") \/ Answers("get_results"))
             => UNCHANGED <<tasks_store, redis_tasks, written>>
       /\ \A id \in JobIds :
             written'[id] # written[id]
                => /\ proc'[id].pc # proc[id].pc
                   /\ \A other \in JobIds \ {id} : proc'[other] = proc[other]]_vars

\* C40: a job has one writer after its creation (see OneWriterPerJob), so the first
\* read of its processor finds the job, in Pending, and the Processing update is made
\* on that record.
C40_SingleWriterFirstReadPending ==
    [][\A id \in JobIds :
          FirstRead(id)
             => /\ written[id] = <<>>
                /\ written'[id] = <<"processing">>
                /\ proc'[id].pc = "analyzing"]_vars


====
